---- MODULE Spec2Model ----
(***************************************************************************)
(* A model of hocr_parser.py: the hOCR word index over a byte buffer, the  *)
(* title codec (_parse_title / _format_title) and the minimal-diff update  *)
(* operations (update, update_by_span, _replace_range).                    *)
(*                                                                         *)
(* Byte strings are TLA+ strings.  Byte offsets are 0-based and ranges are *)
(* half-open <<start, end>> pairs, as in the Python source.  An optional   *)
(* value (None or a value) is a sequence of length 0 or 1.                 *)
(***************************************************************************)
EXTENDS Integers, Sequences, FiniteSets, TLC

(***************************************************************************)
(* Bounds of the model.                                                    *)
(***************************************************************************)
\* the number of spans of a generated document
MaxSpans == 2
\* the number of update / update_by_span / set_source_bytes calls of a run
MaxOps == 2
\* the number of fields of a generated title
MaxFields == 3
\* the number of key and paste events of an editing session
MaxKeys == 4

(***************************************************************************)
(* Python bytes primitives.  A value that is computed once and read        *)
(* several times is passed as an operator parameter.                       *)
(***************************************************************************)
None == <<>>

Some(v) == <<v>>

Min(a, b) == IF a < b THEN a ELSE b

Max(a, b) == IF a > b THEN a ELSE b

Last(seq) == seq[Len(seq)]

\* x in seq
InSeq(seq, x) == \E i \in 1..Len(seq) : seq[i] = x

\* the least element of a non-empty set of integers
LeastOf(set) == CHOOSE i \in set : \A j \in set : i <= j

\* s[a:b] of Python: both ends are clamped to the length
Slice(s, a, b) ==
    IF Min(a, Len(s)) >= Min(b, Len(s)) THEN ""
    ELSE SubSeq(s, Min(a, Len(s)) + 1, Min(b, Len(s)))

\* s[i:i+1]: the byte at offset i, or the empty string past the end
Ch(s, i) == Slice(s, i, i + 1)

\* the bytes that Python's bytes.strip(), bytes.split() and the regex class \s
\* treat as whitespace (the ones the model's alphabet holds)
WS == {" ", "\t", "\n", "\r", "\f"}

Quotes == {"'", "\""}

Digits == {"0", "1", "2", "3", "4", "5", "6", "7", "8", "9"}

DigitVal ==
    ("0" :> 0) @@ ("1" :> 1) @@ ("2" :> 2) @@ ("3" :> 3) @@ ("4" :> 4) @@
    ("5" :> 5) @@ ("6" :> 6) @@ ("7" :> 7) @@ ("8" :> 8) @@ ("9" :> 9)

DigitChr == <<"0", "1", "2", "3", "4", "5", "6", "7", "8", "9">>

UpperToLower ==
    ("A" :> "a") @@ ("B" :> "b") @@ ("C" :> "c") @@ ("D" :> "d") @@
    ("E" :> "e") @@ ("F" :> "f") @@ ("G" :> "g") @@ ("H" :> "h") @@
    ("I" :> "i") @@ ("J" :> "j") @@ ("K" :> "k") @@ ("L" :> "l") @@
    ("M" :> "m") @@ ("N" :> "n") @@ ("O" :> "o") @@ ("P" :> "p") @@
    ("Q" :> "q") @@ ("R" :> "r") @@ ("S" :> "s") @@ ("T" :> "t") @@
    ("U" :> "u") @@ ("V" :> "v") @@ ("W" :> "w") @@ ("X" :> "x") @@
    ("Y" :> "y") @@ ("Z" :> "z")

RECURSIVE Lower(_)
\* bytes.lower(), byte by byte (the string is halved to keep the
\* evaluation shallow)
Lower(s) ==
    IF Len(s) = 0 THEN ""
    ELSE IF Len(s) = 1
    THEN (IF s \in DOMAIN UpperToLower THEN UpperToLower[s] ELSE s)
    ELSE Lower(Slice(s, 0, Len(s) \div 2))
         \o Lower(Slice(s, Len(s) \div 2, Len(s)))

\* the least offset j >= i with s[j] in set, or len(s) when there is none
Find(s, i, set) ==
    IF i >= Len(s) THEN Len(s)
    ELSE CHOOSE j \in i..Len(s) :
            /\ j = Len(s) \/ Ch(s, j) \in set
            /\ \A k \in i..(j - 1) : Ch(s, k) \notin set

\* the least offset j >= i with s[j] not in set, or len(s)
SkipSet(s, i, set) ==
    IF i >= Len(s) THEN Len(s)
    ELSE CHOOSE j \in i..Len(s) :
            /\ j = Len(s) \/ Ch(s, j) \notin set
            /\ \A k \in i..(j - 1) : Ch(s, k) \in set

\* the least offset j <= i such that s[j:i] holds only bytes of set
RSkipSet(s, i, set) ==
    IF i <= 0 THEN 0
    ELSE CHOOSE j \in 0..i :
            /\ j = 0 \/ Ch(s, j - 1) \notin set
            /\ \A k \in j..(i - 1) : Ch(s, k) \in set

\* bytes.strip()
Strip(s) == Slice(s, SkipSet(s, 0, WS), RSkipSet(s, Len(s), WS))

\* sub in s
Contains(s, sub) ==
    \E i \in 0..(Len(s) - Len(sub)) : Slice(s, i, i + Len(sub)) = sub

RECURSIVE SplitOn(_, _)
\* s split at the separator found at offset j
SplitAt(s, sep, j) ==
    IF j >= Len(s) THEN <<s>>
    ELSE <<Slice(s, 0, j)>> \o SplitOn(Slice(s, j + 1, Len(s)), sep)

\* bytes.split(sep) for a one-byte separator: always at least one part
SplitOn(s, sep) == SplitAt(s, sep, Find(s, 0, {sep}))

RECURSIVE SplitRuns(_, _)
\* s split at the run of separator bytes that starts at offset j
SplitRunAt(s, set, j) ==
    IF j >= Len(s) THEN <<s>>
    ELSE <<Slice(s, 0, j)>>
         \o SplitRuns(Slice(s, SkipSet(s, j, set), Len(s)), set)

\* re.split(rb"[<set>]+", s): split on maximal runs of separator bytes
SplitRuns(s, set) == SplitRunAt(s, set, Find(s, 0, set))

\* the tokens of a stripped string
TokensOf(t) == IF t = "" THEN <<>> ELSE SplitRuns(t, WS)

\* bytes.split(): whitespace-separated tokens, no empty token
SplitWs(s) == TokensOf(Strip(s))

RECURSIVE JoinWith(_, _)
\* sep.join(parts)
JoinWith(parts, sep) ==
    IF parts = <<>> THEN ""
    ELSE IF Len(parts) = 1 THEN parts[1]
    ELSE parts[1] \o sep \o JoinWith(Tail(parts), sep)

\* does d match \d+ entirely
IsDigits(d) == d # "" /\ SkipSet(d, 0, Digits) = Len(d)

\* does s match -?\d+ entirely (what int() accepts of the model's alphabet)
IsIntToken(s) == IsDigits(IF Ch(s, 0) = "-" THEN Slice(s, 1, Len(s)) ELSE s)

RECURSIVE NatOf(_, _)
NatOf(s, acc) ==
    IF s = "" THEN acc
    ELSE NatOf(Slice(s, 1, Len(s)), acc * 10 + DigitVal[Ch(s, 0)])

\* int(token) for a token that IsIntToken accepts
IntOf(s) ==
    IF Ch(s, 0) = "-" THEN 0 - NatOf(Slice(s, 1, Len(s)), 0) ELSE NatOf(s, 0)

RECURSIVE NatStr(_)
NatStr(n) ==
    IF n < 10 THEN DigitChr[n + 1]
    ELSE NatStr(n \div 10) \o DigitChr[(n % 10) + 1]

\* str(n).encode("utf8") for an integer n
IntStr(n) == IF n < 0 THEN "-" \o NatStr(0 - n) ELSE NatStr(n)

(***************************************************************************)
(* An insertion-ordered dictionary, as Python's dict: a sequence of        *)
(* <<key, value>> pairs with distinct keys.  d[k] = v replaces the value   *)
(* of a key already present in place and appends a new key at the end.     *)
(***************************************************************************)
DictKeys(d) == [i \in 1..Len(d) |-> d[i][1]]

DictValues(d) == [i \in 1..Len(d) |-> d[i][2]]

DictHas(d, k) == \E i \in 1..Len(d) : d[i][1] = k

\* d.get(k): None when the key is missing
DictGet(d, k) ==
    IF DictHas(d, k)
    THEN Some(d[CHOOSE i \in 1..Len(d) : d[i][1] = k][2])
    ELSE None

\* d[k] = v as a list of pairs would do it carelessly: the old pair is
\* removed and the new one appended, so an updated key moves to the end
DictSetMovesKey(d, k, v) ==
    Append(SelectSeq(d, LAMBDA e : e[1] # k), <<k, v>>)

\* d[k] = v
DictSet(d, k, v) ==
    IF DictHas(d, k)
    THEN [i \in 1..Len(d) |-> IF d[i][1] = k THEN <<k, v>> ELSE d[i]]
    ELSE Append(d, <<k, v>>)

(***************************************************************************)
(* The title codec.                                                        *)
(***************************************************************************)
\* the end offset of a match of \d+ at offset d, or -1
DigitsEnd(s, d) == IF SkipSet(s, d, Digits) > d THEN SkipSet(s, d, Digits) ELSE -1

\* the end offset of a match of -?\d+ at offset q, or -1
IntEnd(s, q) == DigitsEnd(s, IF Ch(s, q) = "-" THEN q + 1 ELSE q)

\* None, or the integer v before the integers of rest
ConsInt(v, rest) == IF rest = None THEN None ELSE Some(<<v>> \o rest[1])

RECURSIVE ReadInts(_, _, _)
\* the integer that ends at offset e (-1: no integer), then k - 1 more
ReadIntTo(s, q, e, k) ==
    IF e < 0 THEN None
    ELSE ConsInt(IntOf(Slice(s, q, e)), ReadInts(s, e, k - 1))

\* the whitespace of \s+ runs from offset p to offset q
ReadIntAt(s, p, q, k) ==
    IF q = p THEN None ELSE ReadIntTo(s, q, IntEnd(s, q), k)

\* a match of (\s+(-?\d+)){k} at offset p: None, or the k integers
ReadInts(s, p, k) ==
    IF k = 0 THEN Some(<<>>) ELSE ReadIntAt(s, p, SkipSet(s, p, WS), k)

\* a match of <key>(\s+(-?\d+)){k} at offset i, ignoring case
MatchKeyInts(s, i, key, k) ==
    IF Lower(Slice(s, i, i + Len(key))) = key
    THEN ReadInts(s, i + Len(key), k)
    ELSE None

\* the match at the least of the offsets at
LeftmostMatch(s, key, k, at) ==
    IF at = {} THEN None ELSE MatchKeyInts(s, LeastOf(at), key, k)

\* re.search of <key>(\s+(-?\d+)){k}, ignoring case: the leftmost match
SearchKeyInts(s, key, k) ==
    LeftmostMatch(s, key, k,
                  { i \in 0..Len(s) : MatchKeyInts(s, i, key, k) # None })

\* _TITLE_BBOX_RE.search(s)
TITLE_BBOX_RE(s) == SearchKeyInts(s, "bbox", 4)

\* _TITLE_XWCONF_RE.search(s)
TITLE_XWCONF_RE(s) == SearchKeyInts(s, "x_wconf", 1)

RECURSIVE TokenScan(_, _)
\* the fallback loop of _parse_title over parts, from index i (0-based) on;
\* an int() that raises ends the scan with no bbox
TokenScan(parts, i) ==
    IF i >= Len(parts) THEN None
    ELSE IF Lower(parts[i + 1]) = "bbox" /\ i + 4 < Len(parts)
    THEN IF \A j \in (i + 2)..(i + 5) : IsIntToken(parts[j])
         THEN Some([j \in 1..4 |-> IntOf(parts[i + 1 + j])])
         ELSE None
    ELSE TokenScan(parts, i + 1)

\* the bbox of _parse_title: the regex match m, or the token scan
BboxOf(s, m) ==
    IF m = None /\ Contains(Lower(s), "bbox")
    THEN TokenScan(SplitRuns(s, WS \cup {";"}), 0)
    ELSE m

\* the x_wconf of _parse_title, of the regex match m2
XwconfOf(m2) == IF m2 = None THEN None ELSE Some(m2[1][1])

\* _parse_title of the stripped title s
ParseStripped(s) == <<BboxOf(s, TITLE_BBOX_RE(s)), XwconfOf(TITLE_XWCONF_RE(s))>>

\* _parse_title: <<bbox or None, x_wconf or None>>
parse_title(title_value) == ParseStripped(Strip(title_value))

\* the key of a stripped field: re.split(rb"\s+", p, 1)[0]
FieldKey(p) == Slice(p, 0, Find(p, 0, WS))

\* the value of a stripped field: re.split(rb"\s+", p, 1)[1], or b""
FieldVal(p) == Slice(p, SkipSet(p, Find(p, 0, WS), WS), Len(p))

\* title_dict[key] = val for the stripped part p, unless p is empty
StoreField(d, p) == IF p = "" THEN d ELSE DictSet(d, FieldKey(p), FieldVal(p))

RECURSIVE TitleDict(_, _)
\* the first loop of _format_title: the fields of the existing title, stored
\* into a dict in order
TitleDict(parts, d) ==
    IF parts = <<>> THEN d
    ELSE TitleDict(Tail(parts), StoreField(d, Strip(parts[1])))

\* encode_val over a list or tuple of integers
EncodeInts(vals) == JoinWith([i \in 1..Len(vals) |-> IntStr(vals[i])], " ")

RECURSIVE ApplyKwargs(_, _)
\* the second loop of _format_title; kwargs is a sequence of <<key, ints>>
ApplyKwargs(d, kwargs) ==
    IF kwargs = <<>> THEN d
    ELSE ApplyKwargs(DictSet(d, kwargs[1][1], EncodeInts(kwargs[1][2])),
                     Tail(kwargs))

\* the merged dict of _format_title, before it is joined
MergedTitleDict(existing, kwargs) ==
    ApplyKwargs(TitleDict(SplitOn(existing, ";"), <<>>), kwargs)

\* b"; ".join(key + b" " + val) over the dict
JoinTitle(d) == JoinWith([i \in 1..Len(d) |-> d[i][1] \o " " \o d[i][2]], "; ")

\* _format_title that rebuilds the title from the supplied values alone
\* (what the FIXME in update warns of)
format_title_from_kwargs(existing, kwargs) == JoinTitle(ApplyKwargs(<<>>, kwargs))

\* _format_title(existing, **kwargs)
format_title(existing, kwargs) == JoinTitle(MergedTitleDict(existing, kwargs))

\* the kwargs that update and update_by_span build: bbox first, then x_wconf
TitleKwargs(bbox, x_wconf) ==
    (IF bbox # None THEN << <<"bbox", bbox[1]>> >> ELSE <<>>)
    \o (IF x_wconf # None THEN << <<"x_wconf", <<x_wconf[1]>> >> >> ELSE <<>>)


(***************************************************************************)
(* The syntax tree.  Parser.parse (tree-sitter, with the html or the xml   *)
(* grammar) is outside the repository; Parse models the tree it builds for *)
(* the markup the model generates: elements with quoted attributes, text   *)
(* and an optional XML declaration.  A node is a record of its type, its   *)
(* byte range and its children, the three things the source reads.         *)
(***************************************************************************)
Node(t, s, e, ch) == [type |-> t, start |-> s, end |-> e, children |-> ch]

\* _detect_lang of head, the first 2048 bytes after the leading whitespace
DetectHead(head) ==
    IF Slice(head, 0, 5) = "<?xml" THEN "xml"
    ELSE IF Contains(head, "http://www.w3.org/1999/xhtml")
            \/ Contains(head, "xmlns=")
    THEN "xml"
    ELSE "html"

\* the length of the prefix that _detect_lang inspects
HeadLen == 2048

\* a _detect_lang that inspects the whole buffer
detect_lang_whole(source) ==
    DetectHead(Slice(source, SkipSet(source, 0, WS), Len(source)))

\* _detect_lang
detect_lang(source) ==
    DetectHead(Slice(Slice(source, SkipSet(source, 0, WS), Len(source)), 0, HeadLen))

\* the node types of the two grammars
AttrType(lang) == IF lang = "html" THEN "attribute" ELSE "Attribute"

AttrNameType(lang) == IF lang = "html" THEN "attribute_name" ELSE "Name"

AttrValueType(lang, quoted) ==
    IF lang = "xml" THEN "AttValue"
    ELSE IF quoted THEN "quoted_attribute_value"
    ELSE "attribute_value"

\* the end of the attribute value that starts at offset v
ValueEnd(sb, v, stop) ==
    IF Ch(sb, v) \in Quotes
    THEN Min(Find(sb, v + 1, {Ch(sb, v)}) + 1, stop)
    ELSE Min(Find(sb, v, {">"} \cup WS), stop)

RECURSIVE ParseAttrs(_, _, _, _)
\* the attribute name=value with the name at [j, k) and the value up to ve
AttrValued(sb, j, k, ve, stop, lang) ==
    <<Node(AttrType(lang), j, ve,
           <<Node(AttrNameType(lang), j, k, <<>>),
             Node(AttrValueType(lang, Ch(sb, k + 1) \in Quotes), k + 1, ve, <<>>)>>)>>
    \o ParseAttrs(sb, Max(ve, k + 1), stop, lang)

\* the attributes from the name at [j, k) on
AttrNamed(sb, j, k, stop, lang) ==
    IF j >= stop \/ k = j THEN <<>>
    ELSE IF Ch(sb, k) = "=" /\ k < stop
    THEN AttrValued(sb, j, k, ValueEnd(sb, k + 1, stop), stop, lang)
    ELSE <<Node(AttrType(lang), j, k, <<Node(AttrNameType(lang), j, k, <<>>)>>)>>
         \o ParseAttrs(sb, k, stop, lang)

\* the attributes from the name that starts at offset j on
AttrsFrom(sb, j, stop, lang) ==
    AttrNamed(sb, j, Min(Find(sb, j, {"=", ">"} \cup WS), stop), stop, lang)

\* the attribute nodes of a start tag, from offset i up to the closing ">"
ParseAttrs(sb, i, stop, lang) == AttrsFrom(sb, SkipSet(sb, i, WS), stop, lang)

\* the start tag [i, gt] whose name ends at nameEnd
StartTagNamed(sb, i, gt, nameEnd, lang) ==
    Node(IF lang = "html" THEN "start_tag" ELSE "STag", i, Min(gt + 1, Len(sb)),
         <<Node(IF lang = "html" THEN "tag_name" ELSE "Name", i + 1, nameEnd, <<>>)>>
         \o ParseAttrs(sb, nameEnd, gt, lang))

\* the start tag that runs from the "<" at offset i to the ">" at offset gt
StartTag(sb, i, gt, lang) ==
    StartTagNamed(sb, i, gt, Min(Find(sb, i + 1, {">", "/"} \cup WS), gt), lang)

\* the end of the tag that starts at offset pos
TagEnd(sb, pos) == Min(Find(sb, pos, {">"}) + 1, Len(sb))

\* the end tag at offset pos, if the buffer does not end there
EndTag(sb, pos, lang) ==
    IF pos < Len(sb)
    THEN <<Node(IF lang = "html" THEN "end_tag" ELSE "ETag", pos, TagEnd(sb, pos), <<>>)>>
    ELSE <<>>

\* the children between the tags: as they are (html), or under one content
\* node (xml)
Inner(stEnd, content, lang) ==
    IF lang = "html" THEN content.nodes
    ELSE IF content.nodes = <<>> THEN <<>>
    ELSE <<Node("content", stEnd, content.pos, content.nodes)>>

\* the element of a start tag and its content [nodes, pos]
ElementWith(sb, i, stag, content, lang) ==
    Node("element", i,
         IF content.pos < Len(sb) THEN TagEnd(sb, content.pos) ELSE content.pos,
         <<stag>> \o Inner(stag.end, content, lang) \o EndTag(sb, content.pos, lang))

RECURSIVE ParseContent(_, _, _)
\* the element whose start tag runs from offset i to the ">" at offset gt
ElementAt(sb, i, gt, lang) ==
    ElementWith(sb, i, StartTag(sb, i, gt, lang),
                ParseContent(sb, Min(gt + 1, Len(sb)), lang), lang)

\* the element that starts with the "<" at offset i
ParseElement(sb, i, lang) == ElementAt(sb, i, Find(sb, i, {">"}), lang)

\* the text node of the run of bytes [i, j): CharData holds the run as it
\* is, an html text node starts and ends at a byte that is not whitespace
TextNodes(sb, i, j, lang) ==
    IF lang = "xml" THEN <<Node("CharData", i, j, <<>>)>>
    ELSE IF SkipSet(sb, i, WS) >= j THEN <<>>
    ELSE <<Node("text", SkipSet(sb, i, WS), RSkipSet(sb, j, WS), <<>>)>>

\* nodes, then the nodes of rest
ConsNodes(nodes, rest) == [nodes |-> nodes \o rest.nodes, pos |-> rest.pos]

\* the element el found at offset i, then the nodes after it
ElementThenRest(sb, el, i, lang) ==
    ConsNodes(<<el>>, ParseContent(sb, Max(el.end, i + 1), lang))

\* the node [i, e) of type t, then the nodes after it
LeafThenRest(sb, t, i, e, lang) ==
    ConsNodes(<<Node(t, i, e, <<>>)>>, ParseContent(sb, e, lang))

\* the text [i, j), then the nodes after it
TextThenRest(sb, i, j, lang) ==
    ConsNodes(TextNodes(sb, i, j, lang), ParseContent(sb, j, lang))

\* the nodes from offset i up to the next end tag or the end of the buffer:
\* [nodes, pos]
ParseContent(sb, i, lang) ==
    IF i >= Len(sb) THEN [nodes |-> <<>>, pos |-> Len(sb)]
    ELSE IF Slice(sb, i, i + 2) = "</" THEN [nodes |-> <<>>, pos |-> i]
    ELSE IF Slice(sb, i, i + 2) = "<?"
    THEN LeafThenRest(sb, "XMLDecl", i, TagEnd(sb, i), lang)
    ELSE IF Ch(sb, i) = "<"
    THEN ElementThenRest(sb, ParseElement(sb, i, lang), i, lang)
    ELSE TextThenRest(sb, i, Find(sb, i, {"<"}), lang)

RECURSIVE ParseTop(_, _, _)
\* the children of the root, c being the nodes up to the next end tag: an
\* end tag that closes nothing is an error node
TopWith(sb, c, lang) ==
    IF c.pos >= Len(sb) THEN c.nodes
    ELSE c.nodes
         \o <<Node("erroneous_end_tag", c.pos, TagEnd(sb, c.pos), <<>>)>>
         \o ParseTop(sb, TagEnd(sb, c.pos), lang)

\* the children of the root, from offset i on
ParseTop(sb, i, lang) == TopWith(sb, ParseContent(sb, i, lang), lang)

\* self.parser.parse(self.source_bytes).root_node
Parse(sb, lang) == Node("document", 0, Len(sb), ParseTop(sb, 0, lang))

(***************************************************************************)
(* Word extraction.                                                        *)
(***************************************************************************)
\* the children of a node whose type is in types, in order
ChildrenOfType(node, types) ==
    SelectSeq(node.children, LAMBDA c : c.type \in types)

\* _strip_quote_range
strip_quote_range(start, end, raw) ==
    IF /\ Len(raw) >= 2
       /\ \/ Ch(raw, 0) = "\"" /\ Ch(raw, Len(raw) - 1) = "\""
          \/ Ch(raw, 0) = "'" /\ Ch(raw, Len(raw) - 1) = "'"
    THEN <<start + 1, end - 1>>
    ELSE <<start, end>>

\* (name, value, inner range) of a name node and the inner range
AttrTriple(sb, name_node, inner) ==
    <<Some(Slice(sb, name_node.start, name_node.end)),
      Slice(sb, inner[1], inner[2]), inner>>

\* the attribute of the name nodes and value nodes found among the children
ReadNameValue(attr_node, sb, names, values) ==
    IF names = <<>> \/ values = <<>>
    THEN <<None, "", <<attr_node.start, attr_node.start>> >>
    ELSE AttrTriple(sb, names[1],
             strip_quote_range(values[1].start, values[1].end,
                               Slice(sb, values[1].start, values[1].end)))

\* the common body of _read_html_attribute and _read_xml_attribute:
\* <<name or None, value, inner range>>
ReadAttribute(attr_node, sb, nameTypes, valueTypes) ==
    ReadNameValue(attr_node, sb, ChildrenOfType(attr_node, nameTypes),
                  ChildrenOfType(attr_node, valueTypes))

\* _read_html_attribute
read_html_attribute(attr_node, sb) ==
    ReadAttribute(attr_node, sb,
        {"attribute_name", "property_identifier", "attribute_name_identifier", "name"},
        {"quoted_attribute_value", "attribute_value", "unquoted_attribute_value", "string"})

\* _read_xml_attribute
read_xml_attribute(attr_node, sb) ==
    ReadAttribute(attr_node, sb, {"Name"}, {"AttValue", "AttributeValue"})

\* "if n: attrs[n] = (v, vr)" for the attribute r = (n, v, vr)
StoreAttr(d, r) ==
    IF r[1] # None /\ r[1][1] # "" THEN DictSet(d, r[1][1], <<r[2], r[3]>>) ELSE d

RECURSIVE AttrsDict(_, _, _, _)
\* the attrs dict of a start tag: name -> <<value, range>>, a later
\* attribute of the same name replacing an earlier one
AttrsDict(attr_nodes, sb, lang, d) ==
    IF attr_nodes = <<>> THEN d
    ELSE AttrsDict(Tail(attr_nodes), sb, lang,
             StoreAttr(d, IF lang = "html"
                          THEN read_html_attribute(attr_nodes[1], sb)
                          ELSE read_xml_attribute(attr_nodes[1], sb)))

\* the default of attrs.get(name, (b"", (0, 0)))
OrDefault(g) == IF g = None THEN <<"", <<0, 0>> >> ELSE g[1]

\* attrs.get(name, (b"", (0, 0)))
AttrGet(attrs, name) == OrDefault(DictGet(attrs, name))

\* _class_has
class_has(class_attr, token) == InSeq(SplitWs(class_attr), token)

\* the Word dataclass
Word(id, text, bbox, xw, title, text_range, title_range, id_range, el, span) ==
    [id |-> id, text |-> text, bbox |-> bbox, x_wconf |-> xw,
     title_value |-> title, text_range |-> text_range,
     title_value_range |-> title_range, id_value_range |-> id_range,
     element_range |-> el, span_range |-> span]

\* "if bbox is None: return None", else the Word; parsed = _parse_title(title)
WordOrNone(parsed, sb, idv, titlev, text_range, el, span) ==
    IF parsed[1] = None THEN None
    ELSE Some(Word(idv[1], Slice(sb, text_range[1], text_range[2]),
                   parsed[1][1], parsed[2], titlev[1], text_range,
                   titlev[2], idv[2], el, span))

\* the Word of an element, of its id and title attributes and its ranges
MakeWord(sb, idv, titlev, text_range, el, span) ==
    WordOrNone(parse_title(titlev[1]), sb, idv, titlev, text_range, el, span)

\* the range of the first of nodes, or else the range dflt
RangeOfFirst(nodes, dflt) ==
    IF nodes = <<>> THEN dflt ELSE <<nodes[1].start, nodes[1].end>>

\* the range of the inner text of an html element: its first direct text
\* child, or a zero-length range before the end tag
HtmlTextRange(element) ==
    RangeOfFirst(ChildrenOfType(element, {"text"}),
                 <<Last(element.children).start, Last(element.children).start>>)

\* the tag name of an html start tag: the last tag_name child
HtmlTagName(names, sb) ==
    IF names = <<>> THEN "" ELSE Slice(sb, Last(names).start, Last(names).end)

\* _extract_word_html, of the start tag and its attrs dict
HtmlWord(element, sb, start_tag, attrs) ==
    IF Lower(HtmlTagName(ChildrenOfType(start_tag, {"tag_name"}), sb)) # "span"
    THEN None
    ELSE IF ~class_has(AttrGet(attrs, "class")[1], "ocrx_word") THEN None
    ELSE MakeWord(sb, AttrGet(attrs, "id"), AttrGet(attrs, "title"),
                  HtmlTextRange(element),
                  <<element.start, element.end>>,
                  <<start_tag.start, Last(element.children).end>>)

\* _extract_word_html: None or a Word
extract_word_html(element, sb) ==
    IF element.children = <<>> \/ element.children[1].type # "start_tag"
    THEN None
    ELSE HtmlWord(element, sb, element.children[1],
                  AttrsDict(ChildrenOfType(element.children[1], {"attribute"}),
                            sb, "html", <<>>))

\* the CharData children of the first content child
XmlCharData(contents) ==
    IF contents = <<>> THEN <<>> ELSE ChildrenOfType(contents[1], {"CharData"})

\* the range of the content text of an xml element: the first CharData of
\* its first content child, or a zero-length range at the element's start
XmlTextRange(element) ==
    RangeOfFirst(XmlCharData(ChildrenOfType(element, {"content"})),
                 <<element.start, element.start>>)

\* the tag name of an xml start tag: the first Name child
XmlTagName(names, sb) ==
    IF names = <<>> THEN "" ELSE Slice(sb, names[1].start, names[1].end)

\* _extract_word_xml, of the start tag and its attrs dict
XmlWord(element, sb, st, attrs) ==
    IF Lower(XmlTagName(ChildrenOfType(st, {"Name"}), sb)) # "span" THEN None
    ELSE IF ~class_has(AttrGet(attrs, "class")[1], "ocrx_word") THEN None
    ELSE IF Last(element.children).type # "ETag" THEN None
    ELSE MakeWord(sb, AttrGet(attrs, "id"), AttrGet(attrs, "title"),
                  XmlTextRange(element),
                  <<element.start, element.end>>,
                  <<st.start, Last(element.children).end>>)

\* _extract_word_xml, of the STag children of the element
XmlWordOf(element, sb, stags) ==
    IF stags = <<>> THEN None
    ELSE XmlWord(element, sb, stags[1],
                 AttrsDict(ChildrenOfType(stags[1], {"Attribute"}), sb, "xml", <<>>))

\* _extract_word_xml: None or a Word
extract_word_xml(element, sb) ==
    XmlWordOf(element, sb, ChildrenOfType(element, {"STag"}))

\* the word of an element in the buffer's dialect
ExtractWord(n, sb, lang) ==
    IF lang = "html" THEN extract_word_html(n, sb) ELSE extract_word_xml(n, sb)

\* a store that keeps the word an id already has
StoreWordOnce(words, w) ==
    IF DictHas(words, w.id) THEN words ELSE Append(words, <<w.id, w>>)

\* words[w.id] = w
StoreWord(words, w) == DictSet(words, w.id, w)

RECURSIVE PopOrder(_)
RECURSIVE ChildrenOrder(_, _)
\* the order in which the while loop pops the first k of children, pushed
\* together: the last one first, each followed by what it pushes itself
ChildrenOrder(children, k) ==
    IF k = 0 THEN <<>>
    ELSE PopOrder(children[k]) \o ChildrenOrder(children, k - 1)

\* the order in which the while loop of _index_words pops the nodes when
\* the stack holds node: "n = stack.pop()", "stack.extend(n.children)"
PopOrder(node) == <<node>> \o ChildrenOrder(node.children, Len(node.children))

\* the words of the popped nodes, in order: "if n.type == 'element'",
\* "w = self._extract_word_*(n, sb)", "if w:"
ExtractedWords(order, sb, lang) ==
    SelectSeq([i \in 1..Len(order) |->
                  IF order[i].type = "element"
                  THEN ExtractWord(order[i], sb, lang) ELSE None],
              LAMBDA w : w # None)

RECURSIVE StoreWords(_, _)
\* "words[w.id] = w" for each extracted word, in order
StoreWords(ws, words) ==
    IF ws = <<>> THEN words
    ELSE StoreWords(Tail(ws), StoreWord(words, ws[1][1]))

\* the dict that _index_words builds when the cache is empty
BuildIndex(sb, lang) ==
    StoreWords(ExtractedWords(PopOrder(Parse(sb, lang)), sb, lang), <<>>)

(***************************************************************************)
(* The parser object.  A parser state st is the record of source_bytes     *)
(* (sb), _lang (lang) and _cached_index (cache: None or the dict), with    *)
(* the log of the splices of the running call.  self.tree is always        *)
(* parse(source_bytes): both assignments of source_bytes reparse at once,  *)
(* so the tree is computed from sb where it is read.                       *)
(***************************************************************************)
ParserState(sb, lg, cache) == [sb |-> sb, lang |-> lg, cache |-> cache, log |-> <<>>]

\* _replace_range that keeps the bytes from the start of the range on
\* (after = self.source_bytes[start:])
replace_range_keeps_old(st, byte_range, new_bytes) ==
    [st EXCEPT
        !.sb    = Slice(st.sb, 0, byte_range[1]) \o new_bytes
                  \o Slice(st.sb, byte_range[1], Len(st.sb)),
        !.cache = None,
        !.log   = Append(@, [range |-> byte_range, new |-> new_bytes])]

\* _replace_range that does not clear the cache
replace_range_keeps_cache(st, byte_range, new_bytes) ==
    [st EXCEPT
        !.sb    = Slice(st.sb, 0, byte_range[1]) \o new_bytes
                  \o Slice(st.sb, byte_range[2], Len(st.sb)),
        !.log   = Append(@, [range |-> byte_range, new |-> new_bytes])]

\* _replace_range: splice, reparse, clear the cache
replace_range(st, byte_range, new_bytes) ==
    [st EXCEPT
        !.sb    = Slice(st.sb, 0, byte_range[1]) \o new_bytes
                  \o Slice(st.sb, byte_range[2], Len(st.sb)),
        !.cache = None,
        !.log   = Append(@, [range |-> byte_range, new |-> new_bytes])]

\* _index_words: the state after the call (the cache is filled)
index_words(st) ==
    IF st.cache # None THEN st
    ELSE [st EXCEPT !.cache = Some(BuildIndex(st.sb, st.lang))]

\* the dict _index_words returns
IndexOf(st) == index_words(st).cache[1]

\* find_words(): list(self._index_words().values())
find_words(st) == DictValues(IndexOf(st))

\* get_word(word_id)
get_word(st, word_id) == DictGet(IndexOf(st), word_id)

\* the values of a sequence of Some(v)
Unwrapped(opts) == [i \in 1..Len(opts) |-> opts[i][1]]

\* the Word that _extract_page_node returns for an element, of the attrs
\* dict of its start tag: "if not bbox: bbox = (0, 0, 0, 0)"
PageOf(element, attrs) ==
    IF ~InSeq(SplitWs(AttrGet(attrs, "class")[1]), "ocr_page") THEN None
    ELSE Some(Word(AttrGet(attrs, "id")[1], "",
                   IF parse_title(AttrGet(attrs, "title")[1])[1] = None
                   THEN <<0, 0, 0, 0>>
                   ELSE parse_title(AttrGet(attrs, "title")[1])[1][1],
                   None, AttrGet(attrs, "title")[1], <<0, 0>>,
                   AttrGet(attrs, "title")[2], AttrGet(attrs, "id")[2],
                   <<element.start, element.end>>, <<0, 0>>))

\* _extract_page_node: None or a Word, of the first start tag of the element
extract_page_node(element, sb, lang) ==
    IF ChildrenOfType(element, {IF lang = "html" THEN "start_tag" ELSE "STag"}) = <<>>
    THEN None
    ELSE PageOf(element,
                AttrsDict(ChildrenOfType(
                              ChildrenOfType(element, {IF lang = "html" THEN "start_tag"
                                                       ELSE "STag"})[1],
                              {IF lang = "html" THEN "attribute" ELSE "Attribute"}),
                          sb, lang, <<>>))

\* find_pages(): the pages of the popped nodes, in order
find_pages(st) ==
    Unwrapped(SelectSeq(
        [i \in 1..Len(PopOrder(Parse(st.sb, st.lang))) |->
            IF PopOrder(Parse(st.sb, st.lang))[i].type \in {"element", "html_element", "div"}
            THEN extract_page_node(PopOrder(Parse(st.sb, st.lang))[i], st.sb, st.lang)
            ELSE None],
        LAMBDA p : p # None))

\* None, or the first of hits
FirstOrNone(hits) == IF hits = <<>> THEN None ELSE Some(hits[1])

\* a find_word_by_span_start that takes the first word at or after the offset
FirstAtOrAfterSpanStart(ws, span_start) ==
    FirstOrNone(SelectSeq(ws, LAMBDA w : w.span_range[1] >= span_start))

\* find_word_by_span_start over the words ws
FirstAtSpanStart(ws, span_start) ==
    FirstOrNone(SelectSeq(ws, LAMBDA w : w.span_range[1] = span_start))

\* find_word_by_span_start(span_start): None or the first such word
find_word_by_span_start(st, span_start) ==
    FirstAtSpanStart(find_words(st), span_start)

\* find_word_at_offset(pos): None or the first word whose span holds pos
find_word_at_offset(st, pos) ==
    FirstOrNone(SelectSeq(find_words(st),
                LAMBDA w : w.span_range[1] <= pos /\ pos < w.span_range[2]))

\* a reference to a word: by id (update) or by span start (update_by_span)
ById(word_id) == [by |-> "id", word_id |-> word_id, span_start |-> -1]

BySpan(span_start) == [by |-> "span", word_id |-> "", span_start |-> span_start]

\* the lookup in the dict idx
ResolveIn(idx, ref) ==
    IF ref.by = "id" THEN DictGet(idx, ref.word_id)
    ELSE FirstAtSpanStart(DictValues(idx), ref.span_start)

\* idx.get(word_id) of update, find_word_by_span_start of update_by_span
Resolve(st, ref) == ResolveIn(IndexOf(st), ref)

\* "g or node"
OrElse(g, node) == IF g # None THEN g[1] ELSE node

\* the steps' state after a splice, r being the reindexed parser state:
\* "node = idx.get(word_id) or node",
\* "word = self.find_word_by_span_start(span_start) or word"
AfterSplice(r, ref, node) ==
    [st |-> r, node |-> OrElse(ResolveIn(r.cache[1], ref), node), changed |-> TRUE]

\* step 1 of update / update_by_span: the text.  a = [st, node, changed]
TextStep(a, ref, text) ==
    IF text # None
    THEN AfterSplice(index_words(replace_range(a.st, a.node.text_range, text[1])),
                     ref, a.node)
    ELSE a

\* "if new_title != current_title": splice and reindex
TitleSplice(a, ref, current_title, new_title) ==
    IF new_title # current_title
    THEN AfterSplice(index_words(replace_range(a.st, a.node.title_value_range,
                                               new_title)),
                     ref, a.node)
    ELSE a

\* the title merge of the current title
TitleMerge(a, ref, current_title, kwargs) ==
    TitleSplice(a, ref, current_title, format_title(current_title, kwargs))

\* step 2 of update / update_by_span: the title merge (bbox / x_wconf)
TitleStep(a, ref, bbox, x_wconf) ==
    IF bbox # None \/ x_wconf # None
    THEN TitleMerge(a, ref,
                    Slice(a.st.sb, a.node.title_value_range[1],
                          a.node.title_value_range[2]),
                    TitleKwargs(bbox, x_wconf))
    ELSE a

\* step 3 of update / update_by_span: the id
IdStep(a, new_id) ==
    IF new_id # None /\ new_id[1] # a.node.id
    THEN [a EXCEPT !.st = replace_range(a.st, a.node.id_value_range, new_id[1]),
                   !.changed = TRUE]
    ELSE a

\* "return changed"
Returned(a) == [st |-> a.st, ret |-> a.changed]

\* the three steps on the word that was found
UpdateNode(s0, node, ref, text, bbox, x_wconf, new_id) ==
    IF node = None THEN [st |-> s0, ret |-> FALSE]
    ELSE Returned(IdStep(TitleStep(TextStep(
             [st |-> s0, node |-> node[1], changed |-> FALSE],
             ref, text), ref, bbox, x_wconf), new_id))

\* the body shared by update and update_by_span, s0 being the parser state
\* once the index is built: [st, ret]
UpdateIndexed(s0, ref, text, bbox, x_wconf, new_id) ==
    UpdateNode(s0, ResolveIn(s0.cache[1], ref), ref, text, bbox, x_wconf, new_id)

\* update(word_id, text=, bbox=, x_wconf=, new_id=)
update(st, word_id, text, bbox, x_wconf, new_id) ==
    UpdateIndexed(index_words(st), ById(word_id), text, bbox, x_wconf, new_id)

\* update_by_span(span_start, text=, bbox=, x_wconf=, new_id=)
update_by_span(st, span_start, text, bbox, x_wconf, new_id) ==
    UpdateIndexed(index_words(st), BySpan(span_start), text, bbox, x_wconf, new_id)

\* a set_source_bytes that leaves the cache as it is
set_source_bytes_keeps_cache(st, source) ==
    ParserState(source, detect_lang(source), st.cache)

\* set_source_bytes(source_bytes)
set_source_bytes(st, source) == ParserState(source, detect_lang(source), None)

\* The characters of a str that are not ASCII are written with ASCII
\* stand-ins: "~" is U+00E9 and "#" is U+FFFD, the replacement character.
\* Their UTF-8 bytes are written "{" "}" for C3 A9 and "[" "|" "]" for
\* EF BF BD.  No text or buffer of the model uses the five for anything else.
\* str.encode("utf-8", errors="replace") of the character at offset i
EncodeAt(s, i) ==
    IF Ch(s, i) = "~" THEN "{}"
    ELSE IF Ch(s, i) = "#" THEN "[|]"
    ELSE Ch(s, i)

\* the encodings of the characters s[lo:hi], concatenated
RECURSIVE EncodeRange(_, _, _)
EncodeRange(s, lo, hi) ==
    IF lo >= hi THEN ""
    ELSE IF hi = lo + 1 THEN EncodeAt(s, lo)
    ELSE EncodeRange(s, lo, (lo + hi) \div 2) \o EncodeRange(s, (lo + hi) \div 2, hi)

encode(s) == EncodeRange(s, 0, Len(s))

\* bytes.decode("utf-8", errors="replace"), what the byte at offset i adds to
\* the result: a complete sequence is decoded where it starts and its other
\* bytes add nothing; a byte of an incomplete sequence is U+FFFD
DecodeAt(b, i) ==
    IF Ch(b, i) = "{" THEN (IF Slice(b, i, i + 2) = "{}" THEN "~" ELSE "#")
    ELSE IF Ch(b, i) = "}" THEN (IF i >= 1 /\ Slice(b, i - 1, i + 1) = "{}" THEN "" ELSE "#")
    ELSE IF Ch(b, i) = "[" THEN "#"
    ELSE IF Ch(b, i) = "|"
    THEN (IF i >= 1 /\ Slice(b, i - 1, i + 2) = "[|]" THEN "" ELSE "#")
    ELSE IF Ch(b, i) = "]"
    THEN (IF i >= 2 /\ Slice(b, i - 2, i + 1) = "[|]" THEN "" ELSE "#")
    ELSE Ch(b, i)

\* the decodings of the bytes b[lo:hi], concatenated
RECURSIVE DecodeRange(_, _, _)
DecodeRange(b, lo, hi) ==
    IF lo >= hi THEN ""
    ELSE IF hi = lo + 1 THEN DecodeAt(b, lo)
    ELSE DecodeRange(b, lo, (lo + hi) \div 2) \o DecodeRange(b, (lo + hi) \div 2, hi)

decode(b) == DecodeRange(b, 0, Len(b))

\* a set_source_string that leaves the parser as it is
set_source_string_dropped(st, source) == st

\* set_source_string(source)
set_source_string(st, source) == set_source_bytes(st, encode(source))

\* get_source_string()
get_source_string(st) == decode(st.sb)

(***************************************************************************)
(* The documents and the arguments of the calls.                           *)
(***************************************************************************)
\* a word span; idattr is " id='..'" or ""
SpanOf(idattr, title, content) ==
    "<span class='ocrx_word'" \o idattr \o " title='" \o title \o "'>"
    \o content \o "</span>"

\* the spans documents are made of: a plain word; a word with no text and a
\* title without a space after the semicolon; a word with no id attribute
\* and mixed content; a span whose title has no bbox and whose class also
\* holds ocr_page
SpanItems ==
    { SpanOf(" id='a'", "bbox 1 2 3 4", "Hi"),
      SpanOf(" id='b'", "bbox 1 2 3 4;x_wconf 90", ""),
      SpanOf("", "bbox 5 6 7 8; x_wconf 90", "you<b>x</b>Hi"),
      "<span class='ocr_page ocrx_word' id='c' title='x_wconf 90'>no</span>" }

\* the sequences over set of length 1..n
SeqsUpTo(set, n) == UNION { [1..k -> set] : k \in 1..n }

PageOpen == "<div class='ocr_page' title='bbox 0 0 9 9'>"

\* a page of spans, in the html dialect (prolog "") or the xml dialect
DocOf(prolog, spans) == prolog \o PageOpen \o JoinWith(spans, " ") \o "</div>"

Prologs == {"", "<?xml version='1.0'?>"}

\* a page on which two words share an id and a third span has no bbox
SharedIdDoc ==
    DocOf("", <<SpanOf(" id='a'", "bbox 1 2 3 4", "Hi"),
                SpanOf(" id='a'", "bbox 1 2 3 4", "Hi"),
                "<span class='ocr_page ocrx_word' id='c' title='x_wconf 90'>no</span>">>)

\* the documents of at most MaxSpans spans, and the page of SharedIdDoc
Docs ==
    { DocOf(p, spans) : p \in Prologs, spans \in SeqsUpTo(SpanItems, MaxSpans) }
    \cup {SharedIdDoc}

\* the documents a run of several calls starts from or loads
SeqDocs ==
    { DocOf("", <<SpanOf(" id='a'", "bbox 1 2 3 4", "Hi"),
                  SpanOf(" id='b'", "bbox 1 2 3 4;x_wconf 90", "")>>),
      DocOf("<?xml version='1.0'?>",
            <<SpanOf("", "bbox 5 6 7 8; x_wconf 90", "you<b>x</b>Hi"),
              SpanOf(" id='a'", "bbox 1 2 3 4", "Hi")>>) }

Opt(set) == {None} \cup { Some(v) : v \in set }

\* the keyword arguments of a call
Args(texts, bboxes, xwconfs, newids) ==
    [text : texts, bbox : bboxes, x_wconf : xwconfs, new_id : newids]

\* the calls of SpecCall: no field, one field, or all four
CallArgs ==
    { a \in Args(Opt({"Hi"}), Opt({<<1, 2, 3, 4>>}), Opt({90}), Opt({"a"})) :
        Cardinality({f \in {"text", "bbox", "x_wconf", "new_id"} : a[f] # None})
          \in {0, 1, 4} }

\* the calls of a run: one field, or all three of text, bbox and new_id
SeqArgs ==
    { a \in Args(Opt({"Yo"}), Opt({<<5, 6, 7, 8>>}), {None}, Opt({"c"})) :
        \/ Cardinality({f \in {"text", "bbox", "new_id"} : a[f] # None}) = 1
        \/ Cardinality({f \in {"text", "bbox", "new_id"} : a[f] # None}) = 3 }

\* the ids a caller names: the ids of the spans, the empty id, an unknown id
IdRefs == {"a", "b", "", "z"}

\* the offsets of the "<span" tags of a buffer
SpanStarts(sb) == { i \in 0..Len(sb) : Slice(sb, i, i + 5) = "<span" }

\* the fields titles are made of
TitleFields == {"bbox 1 2 3 4", "x_wconf 90", "custom foo", "bbox 5 6 7 8"}

\* the titles of at most MaxFields fields, joined by "; " or by ";"
Titles ==
    { JoinWith(fields, sep) :
        fields \in SeqsUpTo(TitleFields, MaxFields), sep \in {"; ", ";"} }

(***************************************************************************)
(* HocrSourceEditor: the text, the cursor of the widget, the two stacks    *)
(* of chunks, the two pending chunks and their single-shot timers.  An     *)
(* operation is <<type, pos, text>>; a chunk is a sequence of operations.  *)
(***************************************************************************)
INSERT == 1

REMOVE == 2

CHUNK_NORMAL == 0

CHUNK_TYPING == 1

CHUNK_DELETE == 2

\* HocrSourceEditor.__init__ on the text of the parser
NewEditor(text, pos) ==
    [text |-> text, position |-> pos, anchor |-> pos,
     undo_stack |-> <<>>, redo_stack |-> <<>>,
     current_typing_chunk |-> None, current_delete_chunk |-> None,
     typing_timer |-> FALSE, delete_timer |-> FALSE]

\* where a cursor offset p is after n characters were inserted at pos
AfterInsert(p, pos, n) == IF p >= pos THEN p + n ELSE p

\* where a cursor offset p is after n characters were removed at pos
AfterRemove(p, pos, n) ==
    IF p >= pos + n THEN p - n ELSE IF p > pos THEN pos ELSE p

\* QTextCursor.insertText at a valid offset
InsertAt(ed, pos, text) ==
    [ed EXCEPT !.text = Slice(@, 0, pos) \o text \o Slice(@, pos, Len(@)),
               !.position = AfterInsert(@, pos, Len(text)),
               !.anchor = AfterInsert(@, pos, Len(text))]

\* QTextCursor.removeSelectedText of the n characters at a valid offset
RemoveAt(ed, pos, n) ==
    [ed EXCEPT !.text = Slice(@, 0, pos) \o Slice(@, pos + n, Len(@)),
               !.position = AfterRemove(@, pos, n),
               !.anchor = AfterRemove(@, pos, n)]

selectionStart(ed) == Min(ed.position, ed.anchor)

selectionEnd(ed) == Max(ed.position, ed.anchor)

hasSelection(ed) == ed.position # ed.anchor

\* cur.setPosition(pos); self.setTextCursor(cur)
setTextCursor(ed, pos) == [ed EXCEPT !.position = pos, !.anchor = pos]

\* _apply_insert: setPosition ignores an offset past the end, and the text
\* then replaces the selection of the widget's cursor
apply_insert(ed, pos, text) ==
    IF pos <= Len(ed.text) THEN InsertAt(ed, pos, text)
    ELSE InsertAt(RemoveAt(ed, selectionStart(ed),
                           selectionEnd(ed) - selectionStart(ed)),
                  selectionStart(ed), text)

\* _apply_remove: each setPosition ignores an offset past the end
apply_remove(ed, pos, length) ==
    IF pos + length <= Len(ed.text) THEN RemoveAt(ed, pos, length)
    ELSE IF pos <= Len(ed.text) THEN ed
    ELSE RemoveAt(ed, selectionStart(ed), selectionEnd(ed) - selectionStart(ed))

\* a _commit_typing_chunk that clears the redo stack with nothing pending
commit_typing_chunk_always_clears(ed) ==
    IF ed.current_typing_chunk # None /\ ed.current_typing_chunk[1] # <<>>
    THEN [ed EXCEPT !.undo_stack = Append(@, ed.current_typing_chunk[1]),
                    !.redo_stack = <<>>,
                    !.current_typing_chunk = None]
    ELSE [ed EXCEPT !.redo_stack = <<>>]

\* a _commit_typing_chunk that leaves the chunk pending
commit_typing_chunk_keeps_pending(ed) ==
    IF ed.current_typing_chunk # None /\ ed.current_typing_chunk[1] # <<>>
    THEN [ed EXCEPT !.undo_stack = Append(@, ed.current_typing_chunk[1]),
                    !.redo_stack = <<>>]
    ELSE ed

\* _commit_typing_chunk()
commit_typing_chunk(ed) ==
    IF ed.current_typing_chunk # None /\ ed.current_typing_chunk[1] # <<>>
    THEN [ed EXCEPT !.undo_stack = Append(@, ed.current_typing_chunk[1]),
                    !.redo_stack = <<>>,
                    !.current_typing_chunk = None]
    ELSE ed

commit_delete_chunk(ed) ==
    IF ed.current_delete_chunk # None /\ ed.current_delete_chunk[1] # <<>>
    THEN [ed EXCEPT !.undo_stack = Append(@, ed.current_delete_chunk[1]),
                    !.redo_stack = <<>>,
                    !.current_delete_chunk = None]
    ELSE ed

commit_all_chunks(ed) == commit_delete_chunk(commit_typing_chunk(ed))

\* a _push_chunk that commits the operations at once in every mode
push_chunk_at_once(ed, ops, mode) ==
    [commit_all_chunks(ed) EXCEPT !.undo_stack = Append(@, ops),
                                  !.redo_stack = <<>>]

\* a _push_chunk whose delete mode extends a pending typing chunk
push_chunk_merges_modes(ed, ops, mode) ==
    IF mode = CHUNK_TYPING
    THEN [commit_delete_chunk(ed) EXCEPT
            !.current_typing_chunk = IF @ = None THEN Some(ops) ELSE Some(@[1] \o ops),
            !.typing_timer = TRUE]
    ELSE IF mode = CHUNK_DELETE
    THEN IF ed.current_typing_chunk # None
         THEN [ed EXCEPT !.current_typing_chunk = Some(@[1] \o ops),
                         !.delete_timer = TRUE]
         ELSE [ed EXCEPT
                 !.current_delete_chunk = IF @ = None THEN Some(ops) ELSE Some(@[1] \o ops),
                 !.delete_timer = TRUE]
    ELSE [commit_all_chunks(ed) EXCEPT !.undo_stack = Append(@, ops),
                                       !.redo_stack = <<>>]

\* a _push_chunk whose delete mode leaves the typing chunk pending
push_chunk_keeps_typing(ed, ops, mode) ==
    IF mode = CHUNK_TYPING
    THEN [commit_delete_chunk(ed) EXCEPT
            !.current_typing_chunk = IF @ = None THEN Some(ops) ELSE Some(@[1] \o ops),
            !.typing_timer = TRUE]
    ELSE IF mode = CHUNK_DELETE
    THEN [ed EXCEPT
            !.current_delete_chunk = IF @ = None THEN Some(ops) ELSE Some(@[1] \o ops),
            !.delete_timer = TRUE]
    ELSE [commit_all_chunks(ed) EXCEPT !.undo_stack = Append(@, ops),
                                       !.redo_stack = <<>>]

\* _push_chunk: a pending chunk is None or Some(chunk)
push_chunk(ed, ops, mode) ==
    IF mode = CHUNK_TYPING
    THEN [commit_delete_chunk(ed) EXCEPT
            !.current_typing_chunk = IF @ = None THEN Some(ops) ELSE Some(@[1] \o ops),
            !.typing_timer = TRUE]
    ELSE IF mode = CHUNK_DELETE
    THEN [commit_typing_chunk(ed) EXCEPT
            !.current_delete_chunk = IF @ = None THEN Some(ops) ELSE Some(@[1] \o ops),
            !.delete_timer = TRUE]
    ELSE [commit_all_chunks(ed) EXCEPT !.undo_stack = Append(@, ops),
                                       !.redo_stack = <<>>]

\* the body of the loop of undo_op for one operation
UndoOne(ed, op) ==
    IF op[1] = INSERT THEN apply_remove(ed, op[2], Len(op[3]))
    ELSE IF op[1] = REMOVE THEN apply_insert(ed, op[2], op[3])
    ELSE ed

\* the body of the loop of redo_op for one operation
RedoOne(ed, op) ==
    IF op[1] = INSERT THEN apply_insert(ed, op[2], op[3])
    ELSE IF op[1] = REMOVE THEN apply_remove(ed, op[2], Len(op[3]))
    ELSE ed

\* the inverses of the first i operations of chunk, first to last
RECURSIVE UndoOpsForward(_, _, _)
UndoOpsForward(ed, chunk, i) ==
    IF i = 0 THEN ed
    ELSE UndoOpsForward(UndoOne(ed, chunk[Len(chunk) - i + 1]), chunk, i - 1)

\* for ... in reversed(chunk): the operations chunk[i], ..., chunk[1]
RECURSIVE UndoOps(_, _, _)
UndoOps(ed, chunk, i) ==
    IF i = 0 THEN ed ELSE UndoOps(UndoOne(ed, chunk[i]), chunk, i - 1)

\* the operations of a chunk replayed last to first
RECURSIVE RedoOpsBackward(_, _, _)
RedoOpsBackward(ed, chunk, i) ==
    IF i > Len(chunk) THEN ed
    ELSE RedoOpsBackward(RedoOne(ed, chunk[Len(chunk) - i + 1]), chunk, i + 1)

\* for ... in chunk: the operations chunk[i], ..., chunk[Len(chunk)]
RECURSIVE RedoOps(_, _, _)
RedoOps(ed, chunk, i) ==
    IF i > Len(chunk) THEN ed ELSE RedoOps(RedoOne(ed, chunk[i]), chunk, i + 1)

\* undo_op once the pending chunks are committed
UndoCommitted(ed) ==
    IF ed.undo_stack = <<>> THEN ed
    ELSE [UndoOps([ed EXCEPT !.undo_stack = SubSeq(@, 1, Len(@) - 1)],
                  Last(ed.undo_stack), Len(Last(ed.undo_stack)))
            EXCEPT !.redo_stack = Append(@, Last(ed.undo_stack))]

undo_op(ed) == UndoCommitted(commit_all_chunks(ed))

\* redo_op once the pending chunks are committed
RedoCommitted(ed) ==
    IF ed.redo_stack = <<>> THEN ed
    ELSE [RedoOps([ed EXCEPT !.redo_stack = SubSeq(@, 1, Len(@) - 1)],
                  Last(ed.redo_stack), 1)
            EXCEPT !.undo_stack = Append(@, Last(ed.redo_stack))]

redo_op(ed) == RedoCommitted(commit_all_chunks(ed))

\* the operations _record_replace_selection returns
record_replace_selection(ed) ==
    IF hasSelection(ed)
    THEN <<<<REMOVE, selectionStart(ed),
       Slice(ed.text, selectionStart(ed), selectionEnd(ed))>>>>
    ELSE <<>>

\* the editor once _record_replace_selection has removed the selection
SelectionRemoved(ed) ==
    IF hasSelection(ed)
    THEN apply_remove(ed, selectionStart(ed), selectionEnd(ed) - selectionStart(ed))
    ELSE ed

\* the characters the regex class \w matches
WordChars ==
    DOMAIN UpperToLower \cup { UpperToLower[c] : c \in DOMAIN UpperToLower }
    \cup Digits \cup {"_"}

\* the offsets at which a match of \b\w+\b starts in text
WordStarts(text) ==
    { i \in 0..(Len(text) - 1) :
        Ch(text, i) \in WordChars /\ (i = 0 \/ Ch(text, i - 1) \notin WordChars) }

\* the offsets at which a match of \b\w+\b ends in text
WordEnds(text) ==
    { j \in 1..Len(text) :
        Ch(text, j - 1) \in WordChars
        /\ (j = Len(text) \/ Ch(text, j) \notin WordChars) }

word_start_before_cursor(pos, text) ==
    IF pos = 0 \/ WordStarts(Slice(text, 0, pos)) = {} THEN 0
    ELSE -LeastOf({ -i : i \in WordStarts(Slice(text, 0, pos)) })

word_end_after_cursor(pos, text) ==
    IF WordEnds(Slice(text, pos, Len(text))) = {} THEN Len(text)
    ELSE pos + LeastOf(WordEnds(Slice(text, pos, Len(text))))

\* keyPressEvent, Ctrl+X
KeyCut(ed) ==
    IF ~hasSelection(ed) THEN ed
    ELSE RemoveAt(push_chunk(ed, record_replace_selection(ed), CHUNK_DELETE),
                  selectionStart(ed), selectionEnd(ed) - selectionStart(ed))

\* keyPressEvent, Ctrl+Backspace, start being the start of the previous word
CtrlBackspaceFrom(ed, start) ==
    push_chunk(setTextCursor(apply_remove(ed, start, ed.position - start), start),
               <<<<REMOVE, start, Slice(ed.text, start, ed.position)>>>>,
               CHUNK_DELETE)

KeyCtrlBackspace(ed) ==
    IF ed.position > 0
    THEN CtrlBackspaceFrom(ed, word_start_before_cursor(ed.position, ed.text))
    ELSE ed

\* keyPressEvent, Ctrl+Delete, end being the end of the next word
CtrlDeleteTo(ed, end) ==
    push_chunk(apply_remove(ed, ed.position, end - ed.position),
               <<<<REMOVE, ed.position, Slice(ed.text, ed.position, end)>>>>,
               CHUNK_DELETE)

KeyCtrlDelete(ed) ==
    IF ed.position < Len(ed.text)
    THEN CtrlDeleteTo(ed, word_end_after_cursor(ed.position, ed.text))
    ELSE ed

\* keyPressEvent, Backspace or Delete without a selection: the character at pos
DeleteChar(ed, pos) ==
    push_chunk(apply_remove(ed, pos, 1), <<<<REMOVE, pos, Ch(ed.text, pos)>>>>,
               CHUNK_DELETE)

\* keyPressEvent, Backspace or Delete on a selection
DeleteSelection(ed) ==
    push_chunk(SelectionRemoved(ed), record_replace_selection(ed), CHUNK_NORMAL)

KeyBackspace(ed) ==
    IF hasSelection(ed) THEN DeleteSelection(ed)
    ELSE IF ed.position > 0 THEN DeleteChar(ed, ed.position - 1)
    ELSE ed

KeyDelete(ed) ==
    IF hasSelection(ed) THEN DeleteSelection(ed)
    ELSE IF ed.position < Len(ed.text) THEN DeleteChar(ed, ed.position)
    ELSE ed

\* keyPressEvent, a character: the selection is removed, the cursor is put
\* at its start and the character is inserted there
KeyType(ed, ch) ==
    push_chunk(apply_insert(setTextCursor(SelectionRemoved(ed), selectionStart(ed)),
                            selectionStart(ed), ch),
               record_replace_selection(ed)
                 \o <<<<INSERT, selectionStart(ed), ch>>>>,
               CHUNK_TYPING)

\* keyPressEvent for a key of Keys; text is the character of the key "type"
keyPressEvent(ed, key, text) ==
    CASE key = "undo" -> undo_op(ed)
      [] key = "redo" -> redo_op(ed)
      [] key = "cut" -> KeyCut(ed)
      [] key = "ctrl_backspace" -> KeyCtrlBackspace(ed)
      [] key = "ctrl_delete" -> KeyCtrlDelete(ed)
      [] key = "backspace" -> KeyBackspace(ed)
      [] key = "delete" -> KeyDelete(ed)
      [] OTHER -> KeyType(ed, text)

insertFromMimeData(ed, pasted) ==
    IF pasted = "" THEN ed
    ELSE push_chunk(apply_insert(SelectionRemoved(ed), selectionStart(ed), pasted),
                    record_replace_selection(ed)
                      \o <<<<INSERT, selectionStart(ed), pasted>>>>,
                    CHUNK_NORMAL)

\* the texts an editing session starts from
EditTexts == {"ab c"}

\* the keys keyPressEvent tells apart
Keys ==
    {"undo", "redo", "cut", "ctrl_backspace", "ctrl_delete", "backspace",
     "delete", "type"}

\* the characters typed and the texts pasted
TypedChars == {"x"}

PasteTexts == {"p~"}

\* the cursors a move leaves: <<position, anchor>>, at an end of the text or
\* selecting all of it
CursorsOf(text) == {<<0, 0>>, <<Len(text), Len(text)>>, <<Len(text), 0>>}

(***************************************************************************)
(* The state machine.                                                      *)
(***************************************************************************)
VARIABLES
    source_bytes,   \* HocrParser.source_bytes
    lang,           \* HocrParser._lang
    cached_index,   \* HocrParser._cached_index: None or the dict
    nops,           \* the number of calls made so far
    last,           \* the last call: its arguments, the state before, its result
    title,          \* the _format_title call: its arguments and its result
    editor,         \* the HocrSourceEditor
    trace           \* the events of the editor so far, each with the editor after it

vars == <<source_bytes, lang, cached_index, nops, last, title, editor, trace>>

\* the editor of a specification that edits nothing
NoEditor == NewEditor("", 0)

\* the parser state of the current state
Cur == ParserState(source_bytes, lang, cached_index)

NoCall ==
    [op |-> "init", ref |-> ById(""), text |-> None, bbox |-> None,
     x_wconf |-> None, new_id |-> None, pre |-> "", pre_cache |-> None,
     word |-> None, ret |-> FALSE, log |-> <<>>]

NoTitle == [existing |-> "", kwargs |-> <<>>, result |-> "", done |-> FALSE]

\* HocrParser.__init__(source_bytes)
InitWith(docs) ==
    /\ source_bytes \in docs
    /\ lang = detect_lang(source_bytes)
    /\ cached_index = None
    /\ nops = 0
    /\ last = NoCall
    /\ title = NoTitle
    /\ editor = NoEditor
    /\ trace = <<>>

\* the state after a call that returned r = [st, ret] on the word w
Commit(ref, a, w, r) ==
    /\ source_bytes' = r.st.sb
    /\ lang' = r.st.lang
    /\ cached_index' = r.st.cache
    /\ nops' = nops + 1
    /\ last' = [op |-> IF ref.by = "id" THEN "update" ELSE "update_by_span",
                ref |-> ref, text |-> a.text, bbox |-> a.bbox,
                x_wconf |-> a.x_wconf, new_id |-> a.new_id,
                pre |-> source_bytes, pre_cache |-> cached_index,
                word |-> w, ret |-> r.ret, log |-> r.st.log]
    /\ UNCHANGED <<title, editor, trace>>

\* update(word_id, **a); s0 is the parser once the call has built its index
Update(limit, ids, args) ==
    /\ nops < limit
    /\ \E word_id \in ids, a \in args :
         \E s0 \in {index_words(Cur)} :
           \E r \in {update(s0, word_id, a.text, a.bbox, a.x_wconf, a.new_id)} :
             Commit(ById(word_id), a, get_word(s0, word_id), r)

\* update_by_span(span_start, **a), of the start of a span or of offset 1
UpdateBySpan(limit, args) ==
    /\ nops < limit
    /\ \E span_start \in SpanStarts(source_bytes) \cup {1}, a \in args :
         \E s0 \in {index_words(Cur)} :
           \E r \in {update_by_span(s0, span_start, a.text, a.bbox,
                                    a.x_wconf, a.new_id)} :
             Commit(BySpan(span_start), a,
                    find_word_by_span_start(s0, span_start), r)

\* set_source_bytes(doc)
SetSourceBytes ==
    /\ nops < MaxOps
    /\ \E doc \in SeqDocs :
         \E r \in {set_source_bytes(Cur, doc)} :
             /\ source_bytes' = r.sb
             /\ lang' = r.lang
             /\ cached_index' = r.cache
             /\ nops' = nops + 1
             /\ last' = [NoCall EXCEPT !.op = "set_source_bytes",
                                       !.pre = source_bytes,
                                       !.pre_cache = cached_index]
    /\ UNCHANGED <<title, editor, trace>>

\* find_words(): fills the cache
FindWords ==
    /\ cached_index = None
    /\ cached_index' = index_words(Cur).cache
    /\ UNCHANGED <<source_bytes, lang, nops, last, title, editor, trace>>

\* _format_title(existing, **kwargs)
FormatTitle ==
    /\ ~title.done
    /\ title' = [title EXCEPT !.result = format_title(title.existing, title.kwargs),
                              !.done = TRUE]
    /\ UNCHANGED <<source_bytes, lang, cached_index, nops, last, editor, trace>>

\* runs of up to MaxOps calls on a loaded document
Init == InitWith(SeqDocs)

Next ==
    \/ Update(MaxOps, {"a", ""}, SeqArgs)
    \/ UpdateBySpan(MaxOps, SeqArgs)
    \/ SetSourceBytes
    \/ FindWords

Spec == Init /\ [][Next]_vars

\* one call on any document
InitCall == InitWith(Docs)

NextCall ==
    \/ Update(1, IdRefs, CallArgs)
    \/ UpdateBySpan(1, CallArgs)

SpecCall == InitCall /\ [][NextCall]_vars

\* one title merge, of any title and any of the updates that update and
\* update_by_span build (bbox, x_wconf or both)
InitTitle ==
    /\ source_bytes = ""
    /\ lang = "html"
    /\ cached_index = None
    /\ nops = 0
    /\ last = NoCall
    /\ title \in { [NoTitle EXCEPT !.existing = t, !.kwargs = TitleKwargs(b, x)] :
                     t \in Titles,
                     b \in Opt({<<5, 6, 7, 8>>}), x \in Opt({90, 7}) }
    /\ title.kwargs # <<>>
    /\ editor = NoEditor
    /\ trace = <<>>

NextTitle == FormatTitle

SpecTitle == InitTitle /\ [][NextTitle]_vars

\* s repeated n times
RECURSIVE Rep(_, _)
Rep(s, n) ==
    IF n = 0 THEN ""
    ELSE IF n % 2 = 1 THEN s \o Rep(s \o s, n \div 2)
    ELSE Rep(s \o s, n \div 2)

XhtmlNs == "http://www.w3.org/1999/xhtml"

\* what a buffer starts with, before and after its leading whitespace
LeadWs == {"", " \t", "\n\r\n"}

Heads ==
    {"<?xml version='1.0'?>", "<html>", "<html xmlns='" \o XhtmlNs \o "'>",
     "<svg xmlns='http://www.w3.org/2000/svg'>", "<!-- " \o XhtmlNs \o " -->",
     "x<?xml version='1.0'?>"}

\* what follows further on in the buffer, and the offsets after the leading
\* whitespace at which it starts: well inside the prefix, ending at its end,
\* across its end, and at its end
Tails == {"", "<?xml", "<p xmlns='x'>", XhtmlNs}

TailStarts == {64, HeadLen - Len(XhtmlNs), HeadLen - 7, HeadLen - 3, HeadLen}

\* the buffers whose dialect is detected
LangDocs ==
    { ws \o h \o Rep(".", n - Len(h)) \o t :
        ws \in LeadWs, h \in Heads, n \in TailStarts, t \in Tails }

\* set_source_bytes(doc) on a parser constructed with no source: the dialect
\* of doc is detected
LoadSource ==
    /\ last.op = "init"
    /\ \E doc \in LangDocs :
         \E r \in {set_source_bytes(Cur, doc)} :
             /\ source_bytes' = r.sb
             /\ lang' = r.lang
             /\ cached_index' = r.cache
             /\ nops' = nops + 1
             /\ last' = [NoCall EXCEPT !.op = "set_source_bytes"]
    /\ UNCHANGED <<title, editor, trace>>

InitLang == InitWith({""})

NextLang == LoadSource

SpecLang == InitLang /\ [][NextLang]_vars

\* the state after a handler left the editor as ed2: the event is recorded,
\* and _sync_parser_and_page has loaded the text into the parser and
\* refreshed the page view, which calls find_words
EditorStep(op, ed2, synced) ==
    /\ editor' = ed2
    /\ trace' = Append(trace, [op |-> op, ed |-> ed2])
    /\ IF synced
       THEN \E r \in {index_words(set_source_string(Cur, ed2.text))} :
              /\ source_bytes' = r.sb
              /\ lang' = r.lang
              /\ cached_index' = r.cache
       ELSE UNCHANGED <<source_bytes, lang, cached_index>>
    /\ UNCHANGED <<last, title>>

\* a key or paste event; a handler that returns early changes nothing
Key(op, ed2) ==
    /\ nops < MaxKeys
    /\ nops' = nops + 1
    /\ EditorStep(op, ed2, ed2 # editor)

\* keyPressEvent(event)
KeyPress(keys) ==
    \E key \in keys, ch \in TypedChars : Key(key, keyPressEvent(editor, key, ch))

\* insertFromMimeData(source)
Paste == \E pasted \in PasteTexts : Key("paste", insertFromMimeData(editor, pasted))

\* a key or click that only moves the cursor or selects
MoveCursor ==
    /\ nops < MaxKeys
    /\ nops' = nops + 1
    /\ \E c \in CursorsOf(editor.text) :
         /\ <<c[1], c[2]>> # <<editor.position, editor.anchor>>
         /\ EditorStep("move", [editor EXCEPT !.position = c[1], !.anchor = c[2]],
                       FALSE)

\* the typing timer fires: _commit_typing_chunk
TypingTimeout ==
    /\ editor.typing_timer
    /\ EditorStep("typing_timeout",
                  commit_typing_chunk([editor EXCEPT !.typing_timer = FALSE]),
                  FALSE)
    /\ UNCHANGED nops

\* the delete timer fires: _commit_delete_chunk
DeleteTimeout ==
    /\ editor.delete_timer
    /\ EditorStep("delete_timeout",
                  commit_delete_chunk([editor EXCEPT !.delete_timer = FALSE]),
                  FALSE)
    /\ UNCHANGED nops

\* an editing session of up to MaxKeys events on a text: setPlainText leaves
\* the cursor at offset 0
InitEdit ==
    /\ source_bytes \in EditTexts
    /\ lang = detect_lang(source_bytes)
    /\ cached_index = None
    /\ nops = 0
    /\ last = NoCall
    /\ title = NoTitle
    /\ editor = NewEditor(decode(source_bytes), 0)
    /\ trace = <<[op |-> "init", ed |-> editor]>>

NextEdit ==
    \/ KeyPress(Keys)
    \/ Paste
    \/ MoveCursor
    \/ TypingTimeout
    \/ DeleteTimeout

SpecEdit == InitEdit /\ [][NextEdit]_vars

\* update_from_page(): setPlainText(parser.get_source_string()), which puts
\* the cursor at offset 0; the stacks, the pending chunks and the timers are
\* left as they are
update_from_page(ed, st) ==
    [ed EXCEPT !.text = get_source_string(st), !.position = 0, !.anchor = 0]

\* the page a session with the page view starts from, and what the page view
\* changes a word to
PageDocs == { DocOf("", <<SpanOf(" id='a'", "bbox 1 2 3 4", "Hi")>>) }

PageTexts == {"H~y"}

\* the keys pressed in such a session
PageKeys == {"undo", "redo", "type", "delete"}

PageBboxes == {<<5, 6, 7, 8>>}

\* what WordItem passes to on_word_changed for the word w: commit_text gives
\* the new text and the bbox of w, update_word_bbox a new bbox
WordChanges(w) ==
    { [text |-> Some(encode(t)), bbox |-> Some(w.bbox)] : t \in PageTexts }
    \cup { [text |-> None, bbox |-> Some(b)] : b \in PageBboxes \ {w.bbox} }

\* on_word_changed(word_id, new_text, bbox, span_start) for a word of the page
\* view: update_by_span, update_from_page, refresh_page_view
WordChanged ==
    /\ nops < MaxKeys
    /\ nops' = nops + 1
    /\ \E i \in 1..Len(find_words(Cur)) :
         \E c \in WordChanges(find_words(Cur)[i]) :
           \E r \in {update_by_span(index_words(Cur),
                                    find_words(Cur)[i].span_range[1],
                                    c.text, c.bbox, None, None)} :
             /\ \E s2 \in {index_words(r.st)} :
                  /\ source_bytes' = s2.sb
                  /\ lang' = s2.lang
                  /\ cached_index' = s2.cache
             /\ editor' = update_from_page(editor, r.st)
             /\ trace' = Append(trace, [op |-> "word_changed",
                                        ed |-> update_from_page(editor, r.st)])
    /\ UNCHANGED <<last, title>>

\* an editing session on a page, with the page view changing words
InitPage ==
    /\ source_bytes \in PageDocs
    /\ lang = detect_lang(source_bytes)
    /\ cached_index = index_words(ParserState(source_bytes, lang, None)).cache
    /\ nops = 0
    /\ last = NoCall
    /\ title = NoTitle
    /\ editor = NewEditor(decode(source_bytes), 0)
    /\ trace = <<[op |-> "init", ed |-> editor]>>

NextPage ==
    \/ KeyPress(PageKeys)
    \/ MoveCursor
    \/ TypingTimeout
    \/ DeleteTimeout
    \/ WordChanged

SpecPage == InitPage /\ [][NextPage]_vars

\* the same session under the Qt event loop, which delivers the timeout of a
\* started single-shot timer
SpecEditFair ==
    InitEdit /\ [][NextEdit]_vars /\ WF_vars(TypingTimeout) /\ WF_vars(DeleteTimeout)

(***************************************************************************)
(* Properties.  A call is described by last: its arguments, the buffer     *)
(* before it (pre), the word its reference resolved to on that buffer      *)
(* (word), the splices it made (log) and what it returned (ret).           *)
(***************************************************************************)
\* the last step was an update or update_by_span that found its word
CallFound == last.op \in {"update", "update_by_span"} /\ last.word # None

\* the fields the last call supplied
Supplied == { f \in {"text", "bbox", "x_wconf", "new_id"} : last[f] # None }

\* old with the bytes of range replaced by new
Spliced(old, range, new) ==
    Slice(old, 0, range[1]) \o new \o Slice(old, range[2], Len(old))

\* the bytes before range and the bytes after it are the same in old and new
OutsideUnchanged(old, new, range) ==
    /\ Len(new) >= range[1] + (Len(old) - range[2])
    /\ Slice(new, 0, range[1]) = Slice(old, 0, range[1])
    /\ Slice(new, Len(new) - (Len(old) - range[2]), Len(new))
         = Slice(old, range[2], Len(old))

\* the word of every qualifying span of a buffer, in the order of the walk
QualifyingWords(sb, lg) ==
    [i \in 1..Len(ExtractedWords(PopOrder(Parse(sb, lg)), sb, lg)) |->
        ExtractedWords(PopOrder(Parse(sb, lg)), sb, lg)[i][1]]

\* the span starts of the words ws
StartsOf(ws) == { ws[i].span_range[1] : i \in 1..Len(ws) }

\* the number of the words ws that have the id
CountId(ws, id) == Cardinality({ i \in 1..Len(ws) : ws[i].id = id })

\* a text-only call on the word w made the one splice of its text range
TextSpliceOf(w, text) ==
    /\ source_bytes = Spliced(last.pre, w.text_range, text)
    /\ Len(source_bytes) - Len(last.pre) = Len(text) - Len(w.text)
    /\ last.log = <<[range |-> w.text_range, new |-> text]>>

\* C1: a call that supplies only text, on a word its reference resolves
\* to, changes one contiguous region at the word's text range: the buffer
\* is old[0:start] + T + old[end:], the length grows by len(T) - len(text),
\* and the call makes that one splice and no other
C1_TextOnlySplice ==
    (CallFound /\ Supplied = {"text"}) => TextSpliceOf(last.word[1], last.text[1])

\* a text-only call has replaced a text by one of another length
C1_Witness ==
    /\ CallFound /\ Supplied = {"text"}
    /\ last.word[1].text # ""
    /\ Len(source_bytes) # Len(last.pre)

\* C2: whatever fields a call supplies, the bytes before and after the
\* span of the word it resolved to are unchanged
C2_OutsideSpanUnchanged ==
    CallFound => OutsideUnchanged(last.pre, source_bytes, last.word[1].span_range)

\* update_by_span(text = X) at the start of the word ws[i], which shares
\* its id with another word, returned True and replaced that word's text
DuplicateUpdated(ws, i) ==
    (/\ last.op = "update_by_span" /\ Supplied = {"text"}
     /\ ws[i].span_range[1] = last.ref.span_start
     /\ CountId(ws, ws[i].id) > 1)
    => /\ last.ret
       /\ source_bytes = Spliced(last.pre, ws[i].text_range, last.text[1])

\* DuplicateUpdated of each of the words ws
DuplicatesUpdated(ws) == \A i \in 1..Len(ws) : DuplicateUpdated(ws, i)

\* C3: when qualifying spans share an id, update_by_span(s, text = X) with
\* s the start of any of them returns True and replaces that span's text
\* and nothing else
C3_DuplicateIdBySpan == DuplicatesUpdated(QualifyingWords(last.pre, lang))

\* find_words() returned a record for each of the qualifying words ws, and
\* find_word_by_span_start and find_word_at_offset reach each of them
OneRecordEach(found, ws) ==
    /\ Len(found) = Len(ws)
    /\ StartsOf(found) = StartsOf(ws)
    /\ \A s \in StartsOf(ws) : FirstAtSpanStart(found, s) # None

\* C4: find_words() returns one record for every qualifying span of the
\* buffer, also for spans that share an id, and each can be reached by its
\* span start
C4_OneRecordPerSpan ==
    OneRecordEach(find_words(Cur), QualifyingWords(source_bytes, lang))

\* C5: a call that supplies only bbox, equal to the word's bbox, leaves the
\* buffer byte-identical, whatever the title looks like
C5_SameBboxNoChange ==
    (CallFound /\ Supplied = {"bbox"} /\ last.bbox[1] = last.word[1].bbox)
    => source_bytes = last.pre

\* the fields of a title: the <<key, value>> of each part that is not blank
FieldsOfParts(parts) ==
    [i \in 1..Len(parts) |-> <<FieldKey(parts[i]), FieldVal(parts[i])>>]

StrippedParts(parts) ==
    SelectSeq([i \in 1..Len(parts) |-> Strip(parts[i])], LAMBDA p : p # "")

FieldsOf(t) == FieldsOfParts(StrippedParts(SplitOn(t, ";")))

\* the keys of fields or of kwargs, in order
KeysOf(fields) == [i \in 1..Len(fields) |-> fields[i][1]]

\* the fields whose key is not among keys
Kept(fields, keys) == SelectSeq(fields, LAMBDA f : ~InSeq(keys, f[1]))

\* no two of the fields have the same key
DistinctKeys(fields) ==
    \A i, j \in 1..Len(fields) : fields[i][1] = fields[j][1] => i = j

RECURSIVE FirstOccurrences(_, _)
\* the distinct keys, each where it first occurs
FirstOccurrences(keys, seen) ==
    IF keys = <<>> THEN seen
    ELSE FirstOccurrences(Tail(keys),
             IF InSeq(seen, keys[1]) THEN seen ELSE Append(seen, keys[1]))

\* C6 as stated: every field of the existing title whose key is not updated
\* is in the merged title with its key and value, in the same relative order
C6_NeverDropsField ==
    title.done =>
        Kept(FieldsOf(title.result), KeysOf(title.kwargs))
          = Kept(FieldsOf(title.existing), KeysOf(title.kwargs))

\* C6: when no two of the fields that are not updated share a key, every
\* such field is in the merged title with its key and value, and these
\* fields keep their relative order
C6_KeepsFieldsOfDistinctKeys ==
    (title.done
       /\ DistinctKeys(Kept(FieldsOf(title.existing), KeysOf(title.kwargs))))
    => Kept(FieldsOf(title.result), KeysOf(title.kwargs))
         = Kept(FieldsOf(title.existing), KeysOf(title.kwargs))

\* a merge that updated a title with two or more other fields of distinct keys
C6_Witness ==
    /\ title.done /\ title.kwargs # <<>>
    /\ DistinctKeys(Kept(FieldsOf(title.existing), KeysOf(title.kwargs)))
    /\ Len(Kept(FieldsOf(title.existing), KeysOf(title.kwargs))) >= 2
    /\ title.result # title.existing

\* the merged title has the keys old, then the supplied keys that are new,
\* and each supplied key has the supplied value
KeysPlaced(old, merged, kwargs) ==
    /\ KeysOf(merged)
         = old \o SelectSeq(KeysOf(kwargs), LAMBDA k : ~InSeq(old, k))
    /\ \A i \in 1..Len(kwargs) :
         InSeq(merged, <<kwargs[i][1], EncodeInts(kwargs[i][2])>>)

\* C7: in the merged title a supplied key that the existing title has stays
\* where it was, with the supplied value; a supplied key that it has not
\* comes after all existing fields; no other key is added
C7_SuppliedKeysInPlace ==
    title.done =>
        KeysPlaced(FirstOccurrences(KeysOf(FieldsOf(title.existing)), <<>>),
                   FieldsOf(title.result), title.kwargs)

\* a merge that replaced bbox, before another field, and appended x_wconf
C7_Witness ==
    /\ title.done
    /\ KeysOf(title.kwargs) = <<"bbox", "x_wconf">>
    /\ KeysOf(FieldsOf(title.existing)) = <<"bbox", "custom">>
    /\ KeysOf(FieldsOf(title.result)) = <<"bbox", "custom", "x_wconf">>
    /\ title.result # title.existing

\* the text, title_value and id of w are the bytes of sb at w's ranges
RangesHold(sb, w) ==
    /\ Slice(sb, w.text_range[1], w.text_range[2]) = w.text
    /\ Slice(sb, w.title_value_range[1], w.title_value_range[2]) = w.title_value
    /\ Slice(sb, w.id_value_range[1], w.id_value_range[2]) = w.id

AllRangesHold(sb, ws) == \A i \in 1..Len(ws) : RangesHold(sb, ws[i])

\* C8: after any run of update, update_by_span and set_source_bytes calls,
\* every word that find_words() returns has the text, title_value and id
\* that the buffer holds at the word's ranges
C8_RangesMatchBuffer == AllRangesHold(source_bytes, find_words(Cur))

\* a second call has changed the buffer and left an index in the cache
C8_Witness ==
    /\ nops >= 2
    /\ last.op \in {"update", "update_by_span"} /\ last.ret
    /\ source_bytes # last.pre
    /\ cached_index # None /\ cached_index[1] # <<>>

\* the word that get_word returns after update(id, text = T) has the text T
\* and the bbox, x_wconf and id of w
Requeried(g, w, text) ==
    /\ g # None
    /\ g[1].text = text
    /\ g[1].bbox = w.bbox /\ g[1].x_wconf = w.x_wconf /\ g[1].id = w.id

\* C9: after update(id, text = T) on a word whose id no other word has,
\* get_word(id) returns a word with text T and the same bbox, x_wconf and
\* id, and find_words() returns as many words as before
C9_TextReadBack ==
    (/\ last.op = "update" /\ last.word # None /\ Supplied = {"text"}
     /\ CountId(QualifyingWords(last.pre, lang), last.ref.word_id) = 1)
    => /\ Requeried(get_word(Cur, last.ref.word_id), last.word[1], last.text[1])
       /\ Len(find_words(Cur)) = Len(QualifyingWords(last.pre, lang))

\* every value the last call supplied is the value the word w has
NothingNew(w) ==
    /\ last.text # None => last.text[1] = w.text
    /\ (last.bbox # None \/ last.x_wconf # None)
         => format_title(w.title_value, TitleKwargs(last.bbox, last.x_wconf))
              = w.title_value
    /\ last.new_id # None => last.new_id[1] = w.id

\* C10: a call whose values all equal the word's current values makes no
\* splice, keeps the index, leaves the buffer as it is and returns False;
\* a call returns True only if the buffer changed
C10_NoChangeNoSplice ==
    /\ (CallFound /\ NothingNew(last.word[1]))
         => /\ last.log = <<>>
            /\ cached_index # None
            /\ source_bytes = last.pre
            /\ ~last.ret
    /\ (CallFound /\ last.ret) => source_bytes # last.pre

(***************************************************************************)
(* Properties of the editor.  trace[k] is the k-1st event with the editor  *)
(* after it; trace[1] is the construction.                                 *)
(***************************************************************************)
\* the events i+1..j are typed characters and no typing chunk is pending at i
TypingRun(i, j) ==
    /\ i < j
    /\ trace[i].ed.current_typing_chunk = None
    /\ \A k \in (i + 1)..j : trace[k].op = "type"

\* the inserts of a chunk, in its order
InsertsOf(chunk) == SelectSeq(chunk, LAMBDA op : op[1] = INSERT)

\* ops are n inserts of one character at p, p + 1, ...
InOrderFrom(ops, p, n) ==
    /\ Len(ops) = n
    /\ \A k \in 1..n : ops[k][1] = INSERT /\ ops[k][2] = p + k - 1 /\ Len(ops[k][3]) = 1

\* e is e0 with the chunk undone: the text and the committed stack of e0,
\* the chunk on the redo stack, nothing pending
RunUndone(e0, chunk, e) ==
    /\ e.text = e0.text
    /\ e.undo_stack = commit_delete_chunk(e0).undo_stack
    /\ e.redo_stack = <<chunk>>
    /\ e.current_typing_chunk = None

\* the n typed characters after e0 are pending in en as one chunk, on top of
\* the stack of e0
RunPending(e0, en, n) ==
    /\ en.current_typing_chunk # None
    /\ InOrderFrom(InsertsOf(en.current_typing_chunk[1]), selectionStart(e0), n)
    /\ Len(en.current_typing_chunk[1]) = n + Len(record_replace_selection(e0))
    /\ en.undo_stack = commit_delete_chunk(e0).undo_stack

\* the pending chunk of en is the one chunk the timer added in ec
RunCommitted(en, ec) ==
    /\ ec.undo_stack = Append(en.undo_stack, en.current_typing_chunk[1])
    /\ ec.current_typing_chunk = None

\* what follows the run i..j: an undo, or the timer and then an undo
RunThenUndo(i, j) ==
    /\ (j < Len(trace) /\ trace[j + 1].op = "undo")
         => RunUndone(trace[i].ed, trace[j].ed.current_typing_chunk[1],
                      trace[j + 1].ed)
    /\ (j < Len(trace) /\ trace[j + 1].op = "typing_timeout")
         => RunCommitted(trace[j].ed, trace[j + 1].ed)
    /\ (j + 1 < Len(trace) /\ trace[j + 1].op = "typing_timeout"
          /\ trace[j + 2].op = "undo")
         => RunUndone(trace[i].ed, trace[j].ed.current_typing_chunk[1],
                      trace[j + 2].ed)

\* C11: n >= 1 characters typed one after the other, nothing in between and
\* no typing chunk pending before the first, are one pending chunk holding
\* the n inserts in order; the timer commits it as exactly one chunk of the
\* undo stack; one undo, while the chunk is pending or once it is committed,
\* restores the text from before the first character
C11_TypingRunOneChunk ==
    \A i \in 1..Len(trace), j \in 1..Len(trace) :
        TypingRun(i, j)
          => RunPending(trace[i].ed, trace[j].ed, j - i) /\ RunThenUndo(i, j)

\* two characters were typed and a single undo, made while the chunk was
\* pending, removed both
C11_Witness ==
    /\ Len(trace) >= 4
    /\ TypingRun(Len(trace) - 3, Len(trace) - 1)
    /\ trace[Len(trace)].op = "undo"
    /\ trace[Len(trace) - 1].ed.text # editor.text
    /\ editor.text = trace[Len(trace) - 3].ed.text

\* the Backspace after the typed characters of en: the typing chunk is
\* committed as a chunk of its own and the one removal, of the character
\* typed last, is pending
TypedThenRemoved(en, eb) ==
    /\ eb.undo_stack = Append(en.undo_stack, en.current_typing_chunk[1])
    /\ eb.current_typing_chunk = None
    /\ eb.current_delete_chunk
         = Some(<< <<REMOVE, en.position - 1, Ch(en.text, en.position - 1)>> >>)
    /\ eb.text # en.text

\* the two undos after the run from e0 to en and the Backspace eb: u1 has
\* the text of en and the typing chunk on top, u2 has the text of e0
UndoneInOrder(e0, en, eb, u1, u2) ==
    /\ u1.text = en.text
    /\ u1.undo_stack = Append(en.undo_stack, en.current_typing_chunk[1])
    /\ u1.redo_stack = <<eb.current_delete_chunk[1]>>
    /\ u2.text = e0.text
    /\ u2.undo_stack = en.undo_stack
    /\ u2.redo_stack = <<eb.current_delete_chunk[1], en.current_typing_chunk[1]>>

\* C12: a Backspace right after typed characters makes two chunks, the
\* typing chunk being committed before the removal is recorded; the first
\* undo re-inserts the removed character, the second removes all the typed
\* characters
C12_TypeThenBackspace ==
    \A i \in 1..Len(trace), j \in 1..Len(trace) :
        (TypingRun(i, j) /\ j < Len(trace) /\ trace[j + 1].op = "backspace")
          => /\ TypedThenRemoved(trace[j].ed, trace[j + 1].ed)
             /\ (j + 3 <= Len(trace) /\ trace[j + 2].op = "undo"
                   /\ trace[j + 3].op = "undo")
                  => UndoneInOrder(trace[i].ed, trace[j].ed, trace[j + 1].ed,
                                   trace[j + 2].ed, trace[j + 3].ed)

\* a character was typed, removed with Backspace, and both were undone
C12_Witness ==
    /\ Len(trace) = 5
    /\ TypingRun(1, 2)
    /\ trace[3].op = "backspace"
    /\ trace[4].op = "undo"
    /\ trace[5].op = "undo"
    /\ trace[4].ed.text = trace[2].ed.text
    /\ editor.text = trace[1].ed.text
    /\ trace[2].ed.text # trace[1].ed.text

\* the events that record an insert or a remove when they change the editor
EditOps ==
    {"type", "backspace", "delete", "ctrl_backspace", "ctrl_delete", "cut",
     "paste"}

\* the last event was an edit that recorded an operation
EditRecorded ==
    /\ Len(trace) >= 2
    /\ trace[Len(trace)].op \in EditOps
    /\ trace[Len(trace)].ed # trace[Len(trace) - 1].ed

\* C13: immediately after a new edit, recorded in Normal, Typing or Deleting
\* mode, the redo stack is empty
C13_RedoEmptyAfterEdit == EditRecorded => editor.redo_stack = <<>>

\* the number of chunks of the history of e, a pending chunk included
Depth(e) == Len(commit_all_chunks(e).undo_stack)

\* the last state before event n in which the history was shorter than d:
\* the state before the first operation of the chunk that is d-th at n
BeforeChunk(n, d) ==
    CHOOSE k \in 1..(n - 1) :
        /\ Depth(trace[k].ed) < d
        /\ \A l \in (k + 1)..(n - 1) : Depth(trace[l].ed) >= d

\* text with the inverse of one operation applied
InverseOn(text, op) ==
    IF op[1] = INSERT
    THEN Slice(text, 0, op[2]) \o Slice(text, op[2] + Len(op[3]), Len(text))
    ELSE Slice(text, 0, op[2]) \o op[3] \o Slice(text, op[2], Len(text))

\* text with the inverses of chunk[i], ..., chunk[1] applied, in this order
RECURSIVE InverseReplay(_, _, _)
InverseReplay(text, chunk, i) ==
    IF i = 0 THEN text
    ELSE InverseReplay(InverseOn(text, chunk[i]), chunk, i - 1)

\* e is c, the editor with its pending chunk committed, after an undo that
\* started at event n
UndoOf(n, c, e) ==
    /\ e.undo_stack = SubSeq(c.undo_stack, 1, Len(c.undo_stack) - 1)
    /\ e.redo_stack = Append(c.redo_stack, Last(c.undo_stack))
    /\ e.current_typing_chunk = None
    /\ e.current_delete_chunk = None
    /\ e.text = InverseReplay(c.text, Last(c.undo_stack), Len(Last(c.undo_stack)))
    /\ e.text = trace[BeforeChunk(n, Len(c.undo_stack))].ed.text

\* the last event was an undo on a history that was not empty
UndoDone ==
    /\ Len(trace) >= 2
    /\ trace[Len(trace)].op = "undo"
    /\ Depth(trace[Len(trace) - 1].ed) > 0

\* C14: an undo with a non-empty history commits the pending chunk, pops
\* the most recent chunk, applies the inverses of its operations last to
\* first, leaves the text as it was before the first operation of that
\* chunk and pushes the chunk itself onto the redo stack
C14_UndoInvertsLastChunk ==
    UndoDone
      => UndoOf(Len(trace), commit_all_chunks(trace[Len(trace) - 1].ed), editor)

\* a chunk of two operations or more was undone
C14_Witness ==
    /\ UndoDone
    /\ Len(Last(editor.redo_stack)) >= 2
    /\ editor.text # trace[Len(trace) - 1].ed.text

\* text with one operation applied
ForwardOn(text, op) ==
    IF op[1] = INSERT
    THEN Slice(text, 0, op[2]) \o op[3] \o Slice(text, op[2], Len(text))
    ELSE Slice(text, 0, op[2]) \o Slice(text, op[2] + Len(op[3]), Len(text))

\* text with chunk[i], ..., chunk[Len(chunk)] applied, in this order
RECURSIVE ForwardReplay(_, _, _)
ForwardReplay(text, chunk, i) ==
    IF i > Len(chunk) THEN text
    ELSE ForwardReplay(ForwardOn(text, chunk[i]), chunk, i + 1)

NothingPending(e) == e.current_typing_chunk = None /\ e.current_delete_chunk = None

\* e has the text and the two stacks of e0
Restored(e0, e) ==
    /\ e.text = e0.text
    /\ e.undo_stack = e0.undo_stack
    /\ e.redo_stack = e0.redo_stack

\* the last two events were first and then second, on an editor with no
\* pending chunk
LastTwo(first, second) ==
    /\ Len(trace) >= 3
    /\ trace[Len(trace) - 1].op = first
    /\ trace[Len(trace)].op = second
    /\ NothingPending(trace[Len(trace) - 2].ed)

\* the editor e after a redo of the top chunk of the redo stack of e0
Replayed(e0, e) ==
    e.text = ForwardReplay(e0.text, Last(e0.redo_stack), 1)

TagClose(sb, s) == Find(sb, s, {">"})

\* the offsets at which the value of the attribute starts in the tag at s
AttrValueStarts(sb, s, name) ==
    { i + Len(name) + 3 : i \in { k \in s..TagClose(sb, s) :
          Slice(sb, k, k + Len(name) + 3) = " " \o name \o "='" } }

\* the value of the attribute of the tag at s, b"" if it has none
AttrValueAt(sb, s, name) ==
    IF AttrValueStarts(sb, s, name) = {} THEN ""
    ELSE Slice(sb, LeastOf(AttrValueStarts(sb, s, name)),
               Find(sb, LeastOf(AttrValueStarts(sb, s, name)), {"'"}))

\* the starts of the qualifying spans of a buffer
QualifyingStarts(sb) ==
    { s \in SpanStarts(sb) : InSeq(SplitWs(AttrValueAt(sb, s, "class")), "ocrx_word") }

\* the title of the span at s has a parseable bbox
HasBbox(sb, s) == parse_title(AttrValueAt(sb, s, "title"))[1] # None

\* C16: when a qualifying span of the buffer has a title without a
\* parseable bbox, find_words() returns the other qualifying spans, all of
\* them, and not that one
C16_BboxlessSkippedOthersKept ==
    (\E s \in QualifyingStarts(source_bytes) : ~HasBbox(source_bytes, s))
      => StartsOf(find_words(Cur))
           = { s \in QualifyingStarts(source_bytes) : HasBbox(source_bytes, s) }

\* the text range of the word w lies between its opening and its closing
\* tag; a span with no content has it, empty, at the start of the closing tag
TextRangeInside(sb, w) ==
    /\ TagClose(sb, w.span_range[1]) + 1 <= w.text_range[1]
    /\ w.text_range[1] <= w.text_range[2]
    /\ w.text_range[2] <= w.span_range[2] - Len("</span>")
    /\ (TagClose(sb, w.span_range[1]) + 1 = w.span_range[2] - Len("</span>"))
         => w.text_range = <<w.span_range[2] - Len("</span>"),
                             w.span_range[2] - Len("</span>")>>

\* C17: in both dialects the text range of every indexed word lies between
\* the end of the opening tag and the start of the closing tag, and is
\* zero-length at the start of the closing tag when the span has no text
C17_TextRangeBetweenTags ==
    \A i \in 1..Len(find_words(Cur)) :
        TextRangeInside(source_bytes, find_words(Cur)[i])

\* the offsets of the tags of a buffer that open an element of class ocr_page
PageClassStarts(sb) ==
    { s \in 0..Len(sb) :
        /\ Ch(sb, s) = "<" /\ Ch(sb, s + 1) \notin {"/", "?"}
        /\ InSeq(SplitWs(AttrValueAt(sb, s, "class")), "ocr_page") }

\* the element starts of the pages ps
PageStartsOf(ps) == { ps[i].element_range[1] : i \in 1..Len(ps) }

\* C18: find_pages() returns an element if and only if its tag name is div
\* and its class holds the token ocr_page
C18_PagesAreDivs ==
    PageStartsOf(find_pages(Cur))
      = { s \in PageClassStarts(source_bytes) :
            Lower(Slice(source_bytes, s + 1, Find(source_bytes, s, WS \cup {">"})))
              = "div" }

\* the words indexed on the buffer the last call started from
WordsBefore == find_words(ParserState(last.pre, detect_lang(last.pre), None))

\* none of the words ws has the id, or the span start, that ref names
NoWordFor(ws, ref) ==
    IF ref.by = "id" THEN \A i \in 1..Len(ws) : ws[i].id # ref.word_id
    ELSE \A i \in 1..Len(ws) : ws[i].span_range[1] # ref.span_start

\* the last call was an update or update_by_span that named no indexed word
CallOnUnknown ==
    /\ last.op \in {"update", "update_by_span"}
    /\ NoWordFor(WordsBefore, last.ref)

\* C19: update with an id that no indexed word has, and update_by_span with
\* an offset at which no indexed word starts, return False, make no splice
\* and leave source_bytes as it was, whatever fields are supplied
C19_UnknownRefNoChange ==
    CallOnUnknown => ~last.ret /\ last.log = <<>> /\ source_bytes = last.pre

\* update_by_span was called with all four fields on an offset at which no
\* word of a buffer that has words starts
C19_Witness ==
    /\ CallOnUnknown
    /\ last.op = "update_by_span"
    /\ Supplied = {"text", "bbox", "x_wconf", "new_id"}
    /\ WordsBefore # <<>>
    /\ ~last.ret

\* the ranges of a word that the three steps splice: text, title, id
StepRanges(w) == <<w.text_range, w.title_value_range, w.id_value_range>>

\* the steps the last call was given a field for, in the order of the steps
StepsSupplied ==
    SelectSeq(<<1, 2, 3>>,
              LAMBDA k : \/ k = 1 /\ last.text # None
                         \/ k = 2 /\ (last.bbox # None \/ last.x_wconf # None)
                         \/ k = 3 /\ last.new_id # None)

\* the buffer immediately before the k-th splice of the last call
RECURSIVE BufferBefore(_)
BufferBefore(k) ==
    IF k = 1 THEN last.pre
    ELSE Spliced(BufferBefore(k - 1), last.log[k - 1].range, last.log[k - 1].new)

\* the k-th splice of the last call replaced the range that the step has
\* on the word found in a fresh index of the buffer before that splice
FreshRange(k, step, fresh) ==
    /\ fresh # None
    /\ last.log[k].range = StepRanges(fresh[1])[step]

\* the k-th least element of a set of numbers
NthOf(set, k) == CHOOSE x \in set : Cardinality({ y \in set : y < x }) = k - 1

\* C20: the splices of a call that supplies several fields are made in the
\* order text, title, id, each on the range its step has in an index of the
\* buffer as it is immediately before that splice
C20_SplicesUseFreshRanges ==
    (CallFound /\ Cardinality(Supplied) >= 2)
      => \E sel \in SUBSET (1..Len(StepsSupplied)) :
            /\ Cardinality(sel) = Len(last.log)
            /\ \A k \in 1..Len(last.log) :
                 FreshRange(k, StepsSupplied[NthOf(sel, k)],
                            Resolve(ParserState(BufferBefore(k), lang, None), last.ref))

\* C21: whenever the cached index is present it is the index that a full
\* extraction over the current source_bytes produces
C21_CacheIsIndexOfBuffer ==
    cached_index # None => cached_index[1] = BuildIndex(source_bytes, lang)

\* another document was loaded over a filled cache, and find_words has
\* rebuilt the cache from it
C21_Witness ==
    /\ last.op = "set_source_bytes"
    /\ last.pre # source_bytes
    /\ last.pre_cache # None
    /\ cached_index # None
    /\ cached_index # last.pre_cache

\* the last event was an undo or a redo that replayed a chunk
ChunkReplayed ==
    /\ Len(trace) >= 2
    /\ trace[Len(trace)].op \in {"undo", "redo"}
    /\ trace[Len(trace)].ed.text # trace[Len(trace) - 1].ed.text

\* the ranges of the word w are ranges of the buffer sb: the text range
\* holds the word's text and the span range a span element
RangesReferTo(sb, w) ==
    /\ Slice(sb, w.text_range[1], w.text_range[2]) = w.text
    /\ Slice(sb, w.span_range[1], w.span_range[1] + 5) = "<span"
    /\ Slice(sb, w.span_range[2] - 7, w.span_range[2]) = "</span>"

\* C22: after every completed undo, redo and recorded edit the parser's
\* source_bytes are the encoding of the editor's text, and the ranges of the
\* words that find_words() returns are ranges of that encoding
C22_ParserHoldsEditorText ==
    EditRecorded \/ ChunkReplayed =>
        /\ source_bytes = encode(editor.text)
        /\ \A i \in 1..Len(find_words(Cur)) :
             RangesReferTo(encode(editor.text), find_words(Cur)[i])

\* an undo on a text with a character of two bytes before the word
C22_Witness ==
    /\ ChunkReplayed
    /\ trace[Len(trace)].op = "undo"
    /\ source_bytes = encode(editor.text)
    /\ Len(source_bytes) > Len(editor.text)
    /\ find_words(Cur) # <<>>
    /\ Slice(editor.text, find_words(Cur)[1].text_range[1],
             find_words(Cur)[1].text_range[2]) # find_words(Cur)[1].text

TypingPending == editor.current_typing_chunk # None

DeletePending == editor.current_delete_chunk # None

\* the last event was a timer firing on a pending chunk, and it appended the
\* whole chunk to the undo stack and left no pending chunk of its mode
TimerFiredOnPending ==
    /\ Len(trace) >= 2
    /\ \/ /\ trace[Len(trace)].op = "typing_timeout"
          /\ trace[Len(trace) - 1].ed.current_typing_chunk # None
       \/ /\ trace[Len(trace)].op = "delete_timeout"
          /\ trace[Len(trace) - 1].ed.current_delete_chunk # None

TimerCommittedWhole ==
    /\ trace[Len(trace)].op = "typing_timeout" =>
         /\ ~TypingPending
         /\ editor.undo_stack
              = Append(trace[Len(trace) - 1].ed.undo_stack,
                       trace[Len(trace) - 1].ed.current_typing_chunk[1])
    /\ trace[Len(trace)].op = "delete_timeout" =>
         /\ ~DeletePending
         /\ editor.undo_stack
              = Append(trace[Len(trace) - 1].ed.undo_stack,
                       trace[Len(trace) - 1].ed.current_delete_chunk[1])

\* C23: a pending typing or deleting chunk eventually stops being pending, and
\* the timer that fires on a pending chunk moves the whole chunk onto the undo
\* stack, leaving no pending chunk of that mode
C23_PendingChunkCommitted ==
    /\ TypingPending ~> ~TypingPending
    /\ DeletePending ~> ~DeletePending
    /\ [](TimerFiredOnPending => TimerCommittedWhole)

C23_Witness ==
    /\ TimerFiredOnPending
    /\ trace[Len(trace)].op = "typing_timeout"
    /\ Len(trace[Len(trace) - 1].ed.current_typing_chunk[1]) >= 2
    /\ Len(editor.undo_stack) >= 2

\* the last event was a timer firing with no pending chunk of its mode: the
\* chunk it was started for was committed by another path
StaleFiring ==
    /\ Len(trace) >= 2
    /\ \/ /\ trace[Len(trace)].op = "typing_timeout"
          /\ trace[Len(trace) - 1].ed.current_typing_chunk = None
       \/ /\ trace[Len(trace)].op = "delete_timeout"
          /\ trace[Len(trace) - 1].ed.current_delete_chunk = None

\* the stacks and the pending chunks of an editor
Recorded(e) ==
    <<e.undo_stack, e.redo_stack, e.current_typing_chunk, e.current_delete_chunk>>

\* event k started or restarted the timer of the mode whose timeout is op
Restarts(k, op) ==
    /\ trace[k].ed # trace[k - 1].ed
    /\ IF op = "typing_timeout"
       THEN trace[k].op = "type"
       ELSE /\ trace[k].op \in {"backspace", "delete", "ctrl_backspace",
                                "ctrl_delete", "cut"}
            /\ trace[k].ed.current_delete_chunk # None

\* C24: a timer fires once per start: between two firings of a timer lies an
\* operation of its mode, and a firing that finds its chunk already committed
\* changes neither stack and no pending chunk
C24_DeadlineSuperseded ==
    /\ StaleFiring => Recorded(editor) = Recorded(trace[Len(trace) - 1].ed)
    /\ \A i \in 2..Len(trace) - 1 :
         /\ trace[i].op = trace[Len(trace)].op
         /\ trace[i].op \in {"typing_timeout", "delete_timeout"}
         => \E k \in i + 1..Len(trace) - 1 : Restarts(k, trace[i].op)

C24_Witness ==
    /\ StaleFiring
    /\ trace[Len(trace)].op = "typing_timeout"
    /\ editor.redo_stack # <<>>
    /\ editor.undo_stack # <<>>

\* the shapes of the chunks each mode records: typing a character records a
\* REMOVE of the selection, if any, and an INSERT of the character; the
\* deleting keys record REMOVEs; a paste records a REMOVE of the selection,
\* if any, and an INSERT of the pasted text; a selection delete one REMOVE
TypingShape(c) ==
    /\ c # <<>>
    /\ c[Len(c)][1] = INSERT
    /\ \A i \in 1..Len(c) :
         IF c[i][1] = INSERT THEN c[i][3] \in TypedChars
         ELSE i < Len(c) /\ c[i + 1][1] = INSERT /\ c[i + 1][2] = c[i][2]

DeleteShape(c) == c # <<>> /\ \A i \in 1..Len(c) : c[i][1] = REMOVE

NormalShape(c) ==
    \/ Len(c) = 1 /\ c[1][1] = REMOVE
    \/ Len(c) = 1 /\ c[1][1] = INSERT /\ c[1][3] \in PasteTexts
    \/ /\ Len(c) = 2 /\ c[1][1] = REMOVE
       /\ c[2][1] = INSERT /\ c[2][3] \in PasteTexts

SingleMode(c) == TypingShape(c) \/ DeleteShape(c) \/ NormalShape(c)

\* the mode under which the last event recorded its operations
ModeOfLast ==
    IF trace[Len(trace)].op = "type" THEN CHUNK_TYPING
    ELSE IF \/ trace[Len(trace)].op = "paste"
            \/ /\ trace[Len(trace)].op \in {"backspace", "delete"}
               /\ hasSelection(trace[Len(trace) - 1].ed)
    THEN CHUNK_NORMAL
    ELSE CHUNK_DELETE

\* the undo stack after the pending chunks of pre were committed
StackWithPending(pre) ==
    pre.undo_stack
      \o (IF pre.current_typing_chunk # None THEN pre.current_typing_chunk ELSE <<>>)
      \o (IF pre.current_delete_chunk # None THEN pre.current_delete_chunk ELSE <<>>)

\* chunk is old followed by at least one and at most two operations
Extends(chunk, old) ==
    /\ Len(chunk) \in {Len(old) + 1, Len(old) + 2}
    /\ SubSeq(chunk, 1, Len(old)) = old

\* the event that took pre to post recorded its operations in mode, after the
\* pending chunk of the other mode was moved onto the undo stack
RecordedAfterCommit(pre, post, mode) ==
    IF mode = CHUNK_TYPING
    THEN /\ post.current_delete_chunk = None
         /\ post.undo_stack
              = StackWithPending([pre EXCEPT !.current_typing_chunk = None])
         /\ post.current_typing_chunk # None
         /\ Extends(post.current_typing_chunk[1],
                    IF pre.current_typing_chunk = None THEN <<>>
                    ELSE pre.current_typing_chunk[1])
    ELSE IF mode = CHUNK_DELETE
    THEN /\ post.current_typing_chunk = None
         /\ post.undo_stack
              = StackWithPending([pre EXCEPT !.current_delete_chunk = None])
         /\ post.current_delete_chunk # None
         /\ Extends(post.current_delete_chunk[1],
                    IF pre.current_delete_chunk = None THEN <<>>
                    ELSE pre.current_delete_chunk[1])
    ELSE /\ post.current_typing_chunk = None
         /\ post.current_delete_chunk = None
         /\ Len(post.undo_stack) = Len(StackWithPending(pre)) + 1
         /\ SubSeq(post.undo_stack, 1, Len(post.undo_stack) - 1)
              = StackWithPending(pre)

\* C25: never are a typing chunk and a deleting chunk pending together, every
\* chunk on the undo and the redo stack has the shape of the operations of one
\* mode, and an edit commits the pending chunk of the other mode before its
\* own operations are recorded
C25_ModesNeverMerge ==
    /\ ~(TypingPending /\ DeletePending)
    /\ \A i \in 1..Len(editor.undo_stack) : SingleMode(editor.undo_stack[i])
    /\ \A i \in 1..Len(editor.redo_stack) : SingleMode(editor.redo_stack[i])
    /\ EditRecorded =>
         RecordedAfterCommit(trace[Len(trace) - 1].ed, editor, ModeOfLast)

\* a deleting key after typing: the typing chunk went onto the undo stack and
\* the deleting chunk holds the removal alone
C25_Witness ==
    /\ EditRecorded
    /\ ModeOfLast = CHUNK_DELETE
    /\ trace[Len(trace) - 1].ed.current_typing_chunk # None
    /\ DeletePending
    /\ editor.undo_stack # <<>>
    /\ TypingShape(editor.undo_stack[Len(editor.undo_stack)])

\* event k was a typed character that replaced a selection while a typing
\* chunk was pending
ReplacedSelection(k) ==
    /\ k >= 2 /\ k <= Len(trace)
    /\ trace[k].op = "type"
    /\ hasSelection(trace[k - 1].ed)
    /\ trace[k - 1].ed.current_typing_chunk # None

\* C26: a typed character that replaces a selection starts a chunk of its own,
\* the typing chunk pending before it being committed, and one undo after it
\* gives back the text as it was before the replacement, the characters typed
\* earlier included
C26_ReplacementStartsChunk ==
    /\ ReplacedSelection(Len(trace)) =>
         /\ Len(editor.current_typing_chunk[1]) = 2
         /\ editor.undo_stack
              = Append(trace[Len(trace) - 1].ed.undo_stack,
                       trace[Len(trace) - 1].ed.current_typing_chunk[1])
    /\ ReplacedSelection(Len(trace) - 1) /\ trace[Len(trace)].op = "undo" =>
         editor.text = trace[Len(trace) - 2].ed.text

\* event k was a paste or a deletion of a selected range by Backspace, Delete
\* or Cut
BulkEdit(k) ==
    /\ k >= 2 /\ k <= Len(trace)
    /\ trace[k].ed # trace[k - 1].ed
    /\ \/ trace[k].op = "paste"
       \/ /\ trace[k].op \in {"backspace", "delete", "cut"}
          /\ hasSelection(trace[k - 1].ed)

\* the removal of the selection of pre, if it has one
SelectionOps(pre) ==
    IF hasSelection(pre)
    THEN <<<<REMOVE, selectionStart(pre),
             Slice(pre.text, selectionStart(pre), selectionEnd(pre))>>>>
    ELSE <<>>

\* chunk holds exactly the operations of the bulk edit that was event k
BulkOpsOf(k, chunk) ==
    IF trace[k].op = "paste"
    THEN \E pasted \in PasteTexts :
           chunk = SelectionOps(trace[k - 1].ed)
                     \o <<<<INSERT, selectionStart(trace[k - 1].ed), pasted>>>>
    ELSE chunk = SelectionOps(trace[k - 1].ed)

\* directly after bulk edit k nothing is pending and the top of the undo stack
\* holds its operations
CommittedAtOnce(k) ==
    /\ trace[k].ed.current_typing_chunk = None
    /\ trace[k].ed.current_delete_chunk = None
    /\ trace[k].ed.undo_stack # <<>>
    /\ BulkOpsOf(k, Last(trace[k].ed.undo_stack))

\* C27: a paste and a deletion of a selection (Backspace, Delete, Cut) are
\* committed at once as a chunk of their own, and an edit that follows does
\* not change that chunk
C27_BulkEditOwnChunk ==
    /\ BulkEdit(Len(trace)) => CommittedAtOnce(Len(trace))
    /\ BulkEdit(Len(trace) - 1) /\ EditRecorded =>
         /\ Len(commit_all_chunks(editor).undo_stack)
              > Len(trace[Len(trace) - 1].ed.undo_stack)
         /\ SubSeq(editor.undo_stack, 1, Len(trace[Len(trace) - 1].ed.undo_stack))
              = trace[Len(trace) - 1].ed.undo_stack
         /\ BulkOpsOf(Len(trace) - 1,
                      editor.undo_stack[Len(trace[Len(trace) - 1].ed.undo_stack)])

\* the starts of the qualifying spans of sb that have a bbox and the id
SharingStarts(sb, id) ==
    { s \in QualifyingStarts(sb) : HasBbox(sb, s) /\ AttrValueAt(sb, s, "id") = id }

\* the offset after the closing tag of the span at s, which holds no span
SpanEnd(sb, s) ==
    LeastOf({ i \in s..Len(sb) : Slice(sb, i, i + 7) = "</span>" }) + 7

\* the last call was update(id, ...) on a buffer with several spans of the id
SharedIdUpdate ==
    /\ last.op = "update"
    /\ last.word # None
    /\ Cardinality(SharingStarts(last.pre, last.ref.word_id)) >= 2

\* fresh, the word a lookup by id returns on the buffer sb, is the earliest
\* of the spans of sb with the id, and range is one of its ranges
EarliestResolved(sb, id, fresh, range) ==
    /\ fresh # None
    /\ fresh[1].span_range[1] = LeastOf(SharingStarts(sb, id))
    /\ range \in {fresh[1].span_range, fresh[1].text_range,
                  fresh[1].title_value_range, fresh[1].id_value_range}

\* the bytes of the span at s of the buffer before the call are in the buffer
\* after it, moved by the change of length
SpanKept(s) ==
    Slice(source_bytes, s + Len(source_bytes) - Len(last.pre),
          SpanEnd(last.pre, s) + Len(source_bytes) - Len(last.pre))
      = Slice(last.pre, s, SpanEnd(last.pre, s))

\* C28: when several qualifying spans share an id, get_word(id) and every
\* step of update(id, ...) resolve to the span of that id that starts
\* earliest, and the update leaves the bytes of the other spans unchanged
C28_SharedIdEarliestSpan ==
    SharedIdUpdate =>
        /\ EarliestResolved(last.pre, last.ref.word_id, last.word,
                            last.word[1].span_range)
        /\ \A k \in 1..Len(last.log) :
             EarliestResolved(BufferBefore(k), last.ref.word_id,
                              get_word(ParserState(BufferBefore(k), lang, None),
                                       last.ref.word_id),
                              last.log[k].range)
        /\ \A s \in SharingStarts(last.pre, last.ref.word_id) :
             s # last.word[1].span_range[1] => SpanKept(s)

C28_Witness ==
    /\ SharedIdUpdate
    /\ Len(last.log) >= 3
    /\ last.ret
    /\ source_bytes # last.pre

\* the offset of the first byte of sb that is not whitespace
FirstNonWs(sb) ==
    LeastOf({ i \in 0..Len(sb) : i = Len(sb) \/ Ch(sb, i) \notin WS })

\* the first HeadLen bytes of sb after its leading whitespace
HeadOf(sb) == Slice(sb, FirstNonWs(sb), FirstNonWs(sb) + HeadLen)

StartsWithXmlDecl(head) == Slice(head, 0, 5) = "<?xml"

\* a buffer was loaded and its dialect detected
Detected == last.op = "set_source_bytes" /\ source_bytes \in LangDocs

\* C30 as stated: the dialect is xml exactly when the prefix starts with
\* <?xml or contains the XHTML namespace, html otherwise, and it is the
\* dialect of the prefix alone
C30_XmlIffDeclOrXhtml ==
    Detected =>
        /\ lang \in {"xml", "html"}
        /\ lang = "xml" <=> \/ StartsWithXmlDecl(HeadOf(source_bytes))
                            \/ Contains(HeadOf(source_bytes), XhtmlNs)
        /\ lang = detect_lang(HeadOf(source_bytes))

\* C30, amended: the dialect is xml exactly when the prefix starts with <?xml
\* or contains the XHTML namespace or the bytes xmlns= of any namespace
\* declaration, html otherwise, and it is the dialect of the prefix alone
C30_XmlIffDeclOrXmlns ==
    Detected =>
        /\ lang \in {"xml", "html"}
        /\ lang = "xml" <=> \/ StartsWithXmlDecl(HeadOf(source_bytes))
                            \/ Contains(HeadOf(source_bytes), XhtmlNs)
                            \/ Contains(HeadOf(source_bytes), "xmlns=")
        /\ lang = detect_lang(HeadOf(source_bytes))

\* html for a buffer that holds the XHTML namespace beyond the prefix only
C30_Witness ==
    /\ Detected
    /\ lang = "html"
    /\ Contains(source_bytes, XhtmlNs)
    /\ ~Contains(HeadOf(source_bytes), XhtmlNs)
    /\ FirstNonWs(source_bytes) > 0

\* undo_op removes, for each INSERT of chunk[1..i] it reverses, exactly the
\* recorded text: ed is the editor when chunk[i] is about to be reversed
RECURSIVE UndoRemovesRecorded(_, _, _)
UndoRemovesRecorded(ed, chunk, i) ==
    \/ i = 0
    \/ /\ chunk[i][1] = INSERT =>
            Slice(ed.text, chunk[i][2], chunk[i][2] + Len(chunk[i][3])) = chunk[i][3]
       /\ UndoRemovesRecorded(UndoOne(ed, chunk[i]), chunk, i - 1)

\* redo_op removes, for each REMOVE of chunk[i..] it replays, exactly the
\* recorded text
RECURSIVE RedoRemovesRecorded(_, _, _)
RedoRemovesRecorded(ed, chunk, i) ==
    \/ i > Len(chunk)
    \/ /\ chunk[i][1] = REMOVE =>
            Slice(ed.text, chunk[i][2], chunk[i][2] + Len(chunk[i][3])) = chunk[i][3]
       /\ RedoRemovesRecorded(RedoOne(ed, chunk[i]), chunk, i + 1)

\* the undo or redo that was the last event, on the editor pre with its
\* pending chunks committed, removed recorded text only
ReplayExact(op, pre) ==
    IF op = "undo"
    THEN pre.undo_stack # <<>> =>
           UndoRemovesRecorded(pre, Last(pre.undo_stack), Len(Last(pre.undo_stack)))
    ELSE pre.redo_stack # <<>> =>
           RedoRemovesRecorded(pre, Last(pre.redo_stack), 1)

====
